---------------------------- MODULE Spec2Model ----------------------------
(***************************************************************************)
(* A model of go-xl (package xl): the document model (Workbook, Sheet,     *)
(* Row, Cell), the cell addressing and merge validation of sheet.go and    *)
(* row.go, and the package assembly of Writer.Write in writer.go.          *)
(*                                                                         *)
(* Go strings whose characters the code inspects (cell references, sheet   *)
(* names, file extensions, part paths, relationship ids) are sequences of  *)
(* one-character strings; other texts (cell values, content types, error   *)
(* messages) are TLA+ strings.  A nil error is NoError.                    *)
(***************************************************************************)
EXTENDS Integers, Sequences, FiniteSets, TLC

VARIABLES
    Sheets,      \* Workbook.Sheets: the sheets in document order
    sheetMap,    \* Workbook.sheetMap: sheet name -> position in Sheets
    last,        \* the last document-model call: operation, arguments, error
    addedNames,  \* history: the names for which an AddSheet call returned a sheet
    accepted,    \* history: per sheet, the ranges of the merge calls that returned nil
    colN,        \* SpecCol: the column number encoded
    colRow,      \* SpecCol: the row number of the reference
    colText,     \* SpecCol: ColumnNumberAsLetters(colN)
    colParsed,   \* SpecCol: parseCellRef of the letters followed by the row number
    colPc,       \* SpecCol: "input", "encoded" or "parsed"
    AppName,     \* Workbook.AppName
    w,           \* the Writer
    out,         \* Writer.out: the WriteBlob calls the sink received, in order
    pc,          \* where Write is
    at,          \* Write: the sheet, row, cell and media record it is at
    xSheet,      \* writeSheet: the worksheet written so far
    xWorkbook,   \* writeWorkbook: the <sheet> elements written so far
    err,         \* Write: the error of the last step
    ret,         \* what Write returned: <<>> until it returns, then <<error>>
    emitted,     \* history: the <c> elements written, with the cell of each
    seed,        \* the order in which this run's map iterations visit the keys
    prev         \* SpecRerun: the blobs of the run before this one, if there was one

docVars == <<Sheets, sheetMap, last, addedNames, accepted>>

colVars == <<colN, colRow, colText, colParsed, colPc>>

-----------------------------------------------------------------------------
(* Bounds of the model *)

MaxMerges == 2    \* no call is made that would store more ranges in a sheet

-----------------------------------------------------------------------------
(* Characters and strings *)

NoError == ""

UpperLetters ==
    <<"A","B","C","D","E","F","G","H","I","J","K","L","M",
      "N","O","P","Q","R","S","T","U","V","W","X","Y","Z">>

LowerLetters ==
    <<"a","b","c","d","e","f","g","h","i","j","k","l","m",
      "n","o","p","q","r","s","t","u","v","w","x","y","z">>

DigitChars == <<"0","1","2","3","4","5","6","7","8","9">>

\* A byte >= 0x80 that unicode.IsLetter accepts when converted to a rune
\* (0xC3, U+00C3) and that strings.ToUpper does not map into 'A'..'Z'.
HighLetter == "U+00C3"

Position(ch, seq) == CHOOSE i \in 1..Len(seq) : seq[i] = ch

Occurs(ch, seq) == \E i \in 1..Len(seq) : seq[i] = ch

IsLetter(ch) ==
    Occurs(ch, UpperLetters) \/ Occurs(ch, LowerLetters) \/ ch = HighLetter

ToUpperChar(ch) ==
    IF Occurs(ch, LowerLetters) THEN UpperLetters[Position(ch, LowerLetters)] ELSE ch

ToLowerChar(ch) ==
    IF Occurs(ch, UpperLetters) THEN LowerLetters[Position(ch, UpperLetters)] ELSE ch

ToUpper(s) == [i \in 1..Len(s) |-> ToUpperChar(s[i])]

ToLower(s) == [i \in 1..Len(s) |-> ToLowerChar(s[i])]

\* The Go string a character sequence stands for.
RECURSIVE Str(_)
Str(s) == IF s = <<>> THEN "" ELSE s[1] \o Str(Tail(s))

RECURSIVE Repeat(_, _)
Repeat(ch, n) == IF n = 0 THEN <<>> ELSE <<ch>> \o Repeat(ch, n - 1)

\* strconv.Itoa
RECURSIVE DecimalDigits(_)
DecimalDigits(n) ==
    IF n < 10 THEN <<DigitChars[n + 1]>>
    ELSE DecimalDigits(n \div 10) \o <<DigitChars[(n % 10) + 1]>>

Itoa(n) == IF n < 0 THEN <<"-">> \o DecimalDigits(0 - n) ELSE DecimalDigits(n)

\* strconv.Atoi: an optional sign, then one or more decimal digits.
RECURSIVE DecimalValue(_, _)
DecimalValue(s, acc) ==
    IF s = <<>> THEN acc
    ELSE DecimalValue(Tail(s), acc * 10 + (Position(s[1], DigitChars) - 1))

Atoi(s) ==
    LET signed == s # <<>> /\ s[1] \in {"+", "-"}
        digits == IF signed THEN Tail(s) ELSE s
        ok     == digits # <<>> /\ \A i \in 1..Len(digits) : Occurs(digits[i], DigitChars)
    IN  IF ~ok THEN [n |-> 0, ok |-> FALSE]
        ELSE [n  |-> IF signed /\ s[1] = "-" THEN 0 - DecimalValue(digits, 0)
                     ELSE DecimalValue(digits, 0),
              ok |-> TRUE]

-----------------------------------------------------------------------------
(* row.go: cell coordinates *)

PanicColumn == "panic: invalid column number"
PanicRow    == "panic: invalid row number"

RECURSIVE ColumnLetters(_, _)
ColumnLetters(n, s) ==
    IF n > 0 THEN ColumnLetters((n - 1) \div 26, <<UpperLetters[((n - 1) % 26) + 1]>> \o s)
    ELSE s

\* A variant with ordinary base-26 digits: the digit of n, not of n - 1.
RECURSIVE ColumnLettersBase26(_, _)
ColumnLettersBase26(n, s) ==
    IF n > 0 THEN ColumnLettersBase26(n \div 26, <<UpperLetters[(n % 26) + 1]>> \o s)
    ELSE s

ColumnNumberAsLettersBase26(n) == ColumnLettersBase26(n, <<>>)

\* ColumnNumberAsLetters(n) for n >= 1; the callers model the panic for n < 1.
ColumnNumberAsLetters(n) == ColumnLetters(n, <<>>)

\* CellCoordAsString(col, row) for col >= 1 and row >= 0.
CellCoordAsString(col, row) == ColumnNumberAsLetters(col) \o Itoa(row)

\* The panic CellCoordAsString raises, NoError if none.
CellCoordPanic(col, row) ==
    IF row < 0 THEN PanicRow
    ELSE IF col < 1 THEN PanicColumn
    ELSE NoError

-----------------------------------------------------------------------------
(* sheet.go: parsing of references *)

ErrEmptyRef    == "empty cell reference"
ErrRefFormat   == "invalid cell reference format"
ErrColLetter   == "invalid column letter"
ErrRowNumber   == "invalid row number"
ErrMergeFormat == "invalid merge cell reference format, expected 'A1:B2'"
ErrSingleCell  == "merge range must span at least 2 cells"
ErrOverlap     == "merge range overlaps with existing merged cells"

RefError(e) == [col |-> 0, row |-> 0, err |-> e]

\* The length of the leading run of letters.
RECURSIVE LetterRun(_)
LetterRun(ref) ==
    IF ref # <<>> /\ IsLetter(ref[1]) THEN 1 + LetterRun(Tail(ref)) ELSE 0

RECURSIVE ColumnValue(_, _)
ColumnValue(letters, col) ==
    IF letters = <<>> THEN col
    ELSE ColumnValue(Tail(letters), col * 26 + Position(letters[1], UpperLetters))

parseCellRef(ref) ==
    IF ref = <<>> THEN RefError(ErrEmptyRef)
    ELSE LET i == LetterRun(ref) IN
         IF i = 0 \/ i = Len(ref) THEN RefError(ErrRefFormat)
         ELSE LET colLetters == ToUpper(SubSeq(ref, 1, i))
                  rowStr     == SubSeq(ref, i + 1, Len(ref))
                  row        == Atoi(rowStr)
              IN  IF \E k \in 1..i : ~Occurs(colLetters[k], UpperLetters)
                  THEN RefError(ErrColLetter)
                  ELSE IF ~row.ok \/ row.n < 1 THEN RefError(ErrRowNumber)
                  ELSE [col |-> ColumnValue(colLetters, 0), row |-> row.n, err |-> NoError]

\* strings.Split(ref, ":")
RECURSIVE Split(_, _)
Split(s, cur) ==
    IF s = <<>> THEN <<cur>>
    ELSE IF s[1] = ":" THEN <<cur>> \o Split(Tail(s), <<>>)
    ELSE Split(Tail(s), Append(cur, s[1]))

RangeError(e) ==
    [startCol |-> 0, startRow |-> 0, endCol |-> 0, endRow |-> 0, err |-> e]

parseMergeCellRef(ref) ==
    LET parts == Split(ref, <<>>) IN
    IF Len(parts) # 2 THEN RangeError(ErrMergeFormat)
    ELSE LET s == parseCellRef(parts[1])
             e == parseCellRef(parts[2])
         IN  IF s.err # NoError THEN RangeError(s.err)
             ELSE IF e.err # NoError THEN RangeError(e.err)
             ELSE [startCol |-> s.col, startRow |-> s.row,
                   endCol |-> e.col, endRow |-> e.row, err |-> NoError]

Min(a, b) == IF a < b THEN a ELSE b
Max(a, b) == IF a > b THEN a ELSE b


-----------------------------------------------------------------------------
(* sheet.go: merge ranges *)

validateMergeRange(mergeCells, startCol, startRow, endCol, endRow) ==
    LET sc == Min(startCol, endCol)
        ec == Max(startCol, endCol)
        sr == Min(startRow, endRow)
        er == Max(startRow, endRow)
        overlaps(mc) ==
            LET p == parseMergeCellRef(mc.Ref) IN
            /\ p.err = NoError      \* a stored range that does not parse is skipped
            /\ ~(\/ ec < Min(p.startCol, p.endCol)
                 \/ sc > Max(p.startCol, p.endCol)
                 \/ er < Min(p.startRow, p.endRow)
                 \/ sr > Max(p.startRow, p.endRow))
    IN  IF sc = ec /\ sr = er THEN ErrSingleCell
        ELSE IF \E i \in 1..Len(mergeCells) : overlaps(mergeCells[i]) THEN ErrOverlap
        ELSE NoError

\* A variant that stores the range before it validates it.
MergeResultStoreFirst(mergeCells, ref) ==
    LET p == parseMergeCellRef(ref) IN
    IF p.err # NoError THEN [err |-> p.err, panic |-> FALSE, MergeCells |-> mergeCells]
    ELSE [err   |-> validateMergeRange(mergeCells, p.startCol, p.startRow, p.endCol, p.endRow),
          panic |-> FALSE,
          MergeCells |-> Append(mergeCells, [Ref |-> ref])]

\* Sheet.Merge: the error returned and the resulting Sheet.MergeCells.
MergeResult(mergeCells, ref) ==
    LET p == parseMergeCellRef(ref) IN
    IF p.err # NoError THEN [err |-> p.err, panic |-> FALSE, MergeCells |-> mergeCells]
    ELSE LET v == validateMergeRange(mergeCells, p.startCol, p.startRow, p.endCol, p.endRow)
         IN  IF v # NoError THEN [err |-> v, panic |-> FALSE, MergeCells |-> mergeCells]
             ELSE [err |-> NoError, panic |-> FALSE,
                   MergeCells |-> Append(mergeCells, [Ref |-> ref])]

\* Sheet.MergeRange: the error returned or the panic raised, and the resulting
\* Sheet.MergeCells.
MergeRangeResult(mergeCells, startCol, startRow, endCol, endRow) ==
    LET v  == validateMergeRange(mergeCells, startCol, startRow, endCol, endRow)
        sc == Min(startCol, endCol)
        ec == Max(startCol, endCol)
        sr == Min(startRow, endRow)
        er == Max(startRow, endRow)
    IN  IF v # NoError THEN [err |-> v, panic |-> FALSE, MergeCells |-> mergeCells]
        ELSE IF CellCoordPanic(sc, sr) # NoError
        THEN [err |-> CellCoordPanic(sc, sr), panic |-> TRUE, MergeCells |-> mergeCells]
        ELSE IF CellCoordPanic(ec, er) # NoError
        THEN [err |-> CellCoordPanic(ec, er), panic |-> TRUE, MergeCells |-> mergeCells]
        ELSE [err |-> NoError, panic |-> FALSE,
              MergeCells |-> Append(mergeCells,
                  [Ref |-> CellCoordAsString(sc, sr) \o <<":">> \o CellCoordAsString(ec, er)])]

-----------------------------------------------------------------------------
(* workbook.go *)

MaxSheetNameLen == 31

ErrEmptyName == "empty sheet name is not allowed"
ErrLongName  == "the sheet name is too long"
ErrQuoteName == "the first or last character of the sheet name can not be a single quote"
ErrCharsName == "the sheet can not contain any of the characters :\\/?*[]"

ForbiddenNameChars == {":", "\\", "/", "?", "*", "[", "]"}

ErrDuplicate(name) == "duplicate sheet name '" \o Str(name) \o "'"

validateSheetName(s) ==
    LET n == Len(s) IN
    IF n = 0 THEN ErrEmptyName
    ELSE IF n > MaxSheetNameLen THEN ErrLongName
    ELSE IF s[1] = "'" \/ s[n] = "'" THEN ErrQuoteName
    ELSE IF \E i \in 1..n : s[i] \in ForbiddenNameChars THEN ErrCharsName
    ELSE NoError

NewSheet(name) ==
    [Name |-> name, Rows |-> <<>>, Columns |-> <<>>, MergeCells |-> <<>>,
     nextRowNumber |-> 1]

\* A variant without the duplicate check.
AddSheetResultNoDuplicateCheck(sheets, smap, name) ==
    IF validateSheetName(name) # NoError
    THEN [err |-> validateSheetName(name), Sheets |-> sheets, sheetMap |-> smap]
    ELSE [err      |-> NoError,
          Sheets   |-> Append(sheets, NewSheet(name)),
          sheetMap |-> [k \in DOMAIN smap \cup {name} |->
                           IF k = name THEN Len(sheets) + 1 ELSE smap[k]]]

\* Workbook.AddSheet: the error returned and the resulting Sheets and sheetMap.
AddSheetResult(sheets, smap, name) ==
    IF name \in DOMAIN smap
    THEN [err |-> ErrDuplicate(name), Sheets |-> sheets, sheetMap |-> smap]
    ELSE IF validateSheetName(name) # NoError
    THEN [err |-> validateSheetName(name), Sheets |-> sheets, sheetMap |-> smap]
    ELSE [err      |-> NoError,
          Sheets   |-> Append(sheets, NewSheet(name)),
          sheetMap |-> [k \in DOMAIN smap \cup {name} |->
                           IF k = name THEN Len(sheets) + 1 ELSE smap[k]]]

-----------------------------------------------------------------------------
(* The calls made on the document model *)

NoCall ==
    [op |-> "none", sheet |-> 0, name |-> <<>>, earlier |-> FALSE, ref |-> <<>>,
     coords |-> <<>>, err |-> NoError, panic |-> FALSE]

\* The rectangle a reference denotes, read leniently: the letters of each
\* corner are its column, the rest its row number; corners in any order.
CornerOf(s) ==
    LET i == LetterRun(s) IN
    [col |-> ColumnValue(ToUpper(SubSeq(s, 1, i)), 0),
     row |-> Atoi(SubSeq(s, i + 1, Len(s))).n]

RectOfCorners(c1, r1, c2, r2) ==
    [c1 |-> Min(c1, c2), r1 |-> Min(r1, r2), c2 |-> Max(c1, c2), r2 |-> Max(r1, r2)]

RectOf(ref) ==
    LET parts == Split(ref, <<>>)
        a == CornerOf(parts[1])
        b == CornerOf(parts[2])
    IN  RectOfCorners(a.col, a.row, b.col, b.row)

RectCells(q) == (q.c1 .. q.c2) \X (q.r1 .. q.r2)

Intersect(p, q) == RectCells(p) \cap RectCells(q) # {}

\* The names AddSheet is called with in SpecBook.
SheetNames ==
    { <<"S","1">>, <<"a","'","b">>, Repeat("n", MaxSheetNameLen),
      <<>>, Repeat("n", MaxSheetNameLen + 1), <<"'","S">>, <<"S","'">>,
      <<"a",":","b">>, <<"a","\\","b">>, <<"a","/","b">>, <<"?">>,
      <<"a","*">>, <<"[","a">>, <<"a","]">> }

\* The names AddSheet is called with in Spec.
MergeSheetNames == { <<"S","1">>, <<"a",":","b">> }

GridCols == {1, 2}
GridRows == {1, 2}

\* The references Merge is called with: the ranges of the grid from their
\* top-left to their bottom-right corner, some of them from other corners or
\* in another spelling, and malformed references.
GridRefs ==
    { CellCoordAsString(c1, r1) \o <<":">> \o CellCoordAsString(c2, r2) :
        <<c1, r1, c2, r2>> \in
            { c \in GridCols \X GridRows \X GridCols \X GridRows :
                c[1] <= c[3] /\ c[2] <= c[4] /\ (c[1] = 1 \/ c[1] # c[3] \/ c[2] # c[4]) } }

OtherRefs ==
    { <<"B","2",":","A","1">>, <<"A","2",":","B","1">>, <<"B","1",":","A","1">>,
      <<"a","1",":","b","2">>, <<"A","0","1",":","A","2">>, <<"A","+","1",":","B","1">>,
      <<>>, <<"A","1">>, <<"A","1",":","B","2",":","A","2">>, <<":","A","1">>,
      <<"1","A",":","B","2">>, <<"A",":","B","2">>, <<"A","0",":","B","1">>,
      <<"A","1",":","B","-","1">>, <<HighLetter,"1",":","A","2">> }

MergeRefs == GridRefs \cup OtherRefs

\* The coordinates MergeRange is called with: the ranges of the grid extended
\* by row 0, some of them from other corners, and coordinates that make
\* CellCoordAsString panic.
MergeCoords ==
    { c \in GridCols \X (GridRows \cup {0}) \X GridCols \X (GridRows \cup {0}) :
        c[1] <= c[3] /\ c[2] <= c[4] /\ (c[1] = 1 \/ c[1] # c[3] \/ c[2] # c[4]) }
    \cup { <<2, 2, 1, 1>>, <<1, 2, 2, 1>>, <<2, 1, 1, 0>> }
    \cup { <<0, 1, 1, 1>>, <<2, 2, 0, 1>>, <<1, -1, 1, 1>>, <<1, 2, 2, -1>> }

AddSheet(name) ==
    \E r \in {AddSheetResult(Sheets, sheetMap, name)} :
    /\ Sheets' = r.Sheets
    /\ sheetMap' = r.sheetMap
    /\ addedNames' = IF r.err = NoError THEN addedNames \cup {name} ELSE addedNames
    /\ accepted' = IF r.err = NoError THEN Append(accepted, <<>>) ELSE accepted
    /\ last' = [NoCall EXCEPT !.op = "AddSheet", !.name = name,
                              !.earlier = (name \in addedNames), !.err = r.err]

Merge(s, ref) ==
    /\ s \in 1..Len(Sheets)
    /\ \E r \in {MergeResult(Sheets[s].MergeCells, ref)} :
       /\ Len(r.MergeCells) <= MaxMerges
       /\ Sheets' = [Sheets EXCEPT ![s].MergeCells = r.MergeCells]
       /\ accepted' = IF r.err = NoError
                      THEN [accepted EXCEPT ![s] = Append(@, RectOf(ref))]
                      ELSE accepted
       /\ last' = [NoCall EXCEPT !.op = "Merge", !.sheet = s, !.ref = ref, !.err = r.err]
    /\ UNCHANGED <<sheetMap, addedNames>>

MergeRange(s, c) ==
    /\ s \in 1..Len(Sheets)
    /\ \E r \in {MergeRangeResult(Sheets[s].MergeCells, c[1], c[2], c[3], c[4])} :
       /\ Len(r.MergeCells) <= MaxMerges
       /\ Sheets' = [Sheets EXCEPT ![s].MergeCells = r.MergeCells]
       /\ accepted' = IF r.err = NoError
                      THEN [accepted EXCEPT ![s] =
                               Append(@, RectOfCorners(c[1], c[2], c[3], c[4]))]
                      ELSE accepted
       /\ last' = [NoCall EXCEPT !.op = "MergeRange", !.sheet = s, !.coords = c,
                                 !.err = r.err, !.panic = r.panic]
    /\ UNCHANGED <<sheetMap, addedNames>>

-----------------------------------------------------------------------------
(* The column round trip: encode a column number, then parse the reference *)

MaxColumn == 703             \* column numbers 1..MaxColumn are encoded

ColRows == {1, 10}

NoRef == RefError(NoError)

Encode ==
    /\ colPc = "input"
    /\ colText' = ColumnNumberAsLetters(colN)
    /\ colPc' = "encoded"
    /\ UNCHANGED <<colN, colRow, colParsed>>

Decode ==
    /\ colPc = "encoded"
    /\ colParsed' = parseCellRef(colText \o Itoa(colRow))
    /\ colPc' = "parsed"
    /\ UNCHANGED <<colN, colRow, colText>>

-----------------------------------------------------------------------------
(* cell.go, font.go: cells and their formats *)

CellTypeUnset        == 0
CellTypeBool         == 1
CellTypeDate         == 2
CellTypeError        == 3
CellTypeFormula      == 4
CellTypeInlineString == 5
CellTypeNumber       == 6
CellTypeSharedString == 7
cellTypePicture      == 8

UnderlineNone == ""

DefaultFont ==
    [Size |-> 0, Bold |-> FALSE, Italic |-> FALSE, Underline |-> UnderlineNone,
     Strikethrough |-> FALSE]

DefaultAlignment == [Horizontal |-> "", Vertical |-> ""]

\* The zero value of XF.
DefaultXF == [Alignment |-> DefaultAlignment, Font |-> DefaultFont]

\* Font.IsDefault, Font.Empty
FontIsDefault(f) ==
    f.Size = 0 /\ ~f.Bold /\ ~f.Italic /\ f.Underline = UnderlineNone /\ ~f.Strikethrough

\* Alignment.Empty
AlignmentEmpty(a) == a.Horizontal = "" /\ a.Vertical = ""

\* XF.Empty
XFEmpty(xf) == AlignmentEmpty(xf.Alignment) /\ FontIsDefault(xf.Font)

\* A pointer is a sequence: <<>> is nil, <<v>> points to v.
Nil == <<>>

\* The cell AddCell returns: no value, no picture, the zero XF.
NewCell(col, row) ==
    [columnNumber |-> col, coord |-> CellCoordAsString(col, row),
     typ |-> CellTypeUnset, v |-> "", picture |-> Nil, XF |-> DefaultXF]

\* A variant that stores the words true and false.
SetBoolAsWord(c, b) == [c EXCEPT !.typ = CellTypeBool, !.v = IF b THEN "true" ELSE "false"]

SetBool(c, b)    == [c EXCEPT !.typ = CellTypeBool, !.v = IF b THEN "1" ELSE "0"]
SetInt(c, n)     == [c EXCEPT !.typ = CellTypeNumber, !.v = Str(Itoa(n))]
\* A variant that adds the text to the one the cell has.
SetStrAppending(c, text) == [c EXCEPT !.typ = CellTypeSharedString, !.v = c.v \o text]

SetStr(c, text)  == [c EXCEPT !.typ = CellTypeSharedString, !.v = text]
\* SetFloat, g being fmt.Sprintf("%g", v) of its argument v
SetFloat(c, g)   == [c EXCEPT !.typ = CellTypeNumber, !.v = g]
SetPicture(c, p) == [c EXCEPT !.typ = cellTypePicture, !.picture = p]
WithXF(c, xf)    == [c EXCEPT !.XF = xf]

-----------------------------------------------------------------------------
(* media.go: BlobHash *)

\* FNV-1, 64 bit: h = offset; for each byte, h = (h * prime) xor byte.  The
\* model keeps the low 16 bits of h, which depend on the low 16 bits of the
\* offset basis 0xcbf29ce484222325 and of the prime 0x100000001b3 only.
RECURSIVE BitXor(_, _)
BitXor(a, b) ==
    IF a = 0 THEN b
    ELSE IF b = 0 THEN a
    ELSE (((a % 2) + (b % 2)) % 2) + 2 * BitXor(a \div 2, b \div 2)

\* 435 is 0x01b3, 65536 is 2^16.
RECURSIVE FnvSum(_, _)
FnvSum(h, blob) ==
    IF blob = <<>> THEN h
    ELSE FnvSum(BitXor((h * 435) % 65536, blob[1]), Tail(blob))

\* 8997 is 0x2325.
BlobHash(blob) == FnvSum(8997, blob)

HexDigits == <<"0","1","2","3","4","5","6","7","8","9","a","b","c","d","e","f">>

\* The last four of the digits fmt.Sprintf("%.16x", hash) prints.
HexLow(h) ==
    << HexDigits[((h \div 4096) % 16) + 1], HexDigits[((h \div 256) % 16) + 1],
       HexDigits[((h \div 16) % 16) + 1], HexDigits[(h % 16) + 1] >>

-----------------------------------------------------------------------------
(* writer.go: the Writer *)

Put(m, k, v) == [key \in DOMAIN m \cup {k} |-> IF key = k THEN v ELSE m[key]]

EmptyMap == <<>>

\* fmt.Sprintf("rId%d", n)
RId(n) == <<"r","I","d">> \o Itoa(n)

ContentTypeXml  == "application/xml"
ContentTypeRels == "application/vnd.openxmlformats-package.relationships+xml"

NewWriter ==
    [lastGlobalId |-> 0, lastWorkbookId |-> 0, lastRichDataId |-> 0,
     GlobalRels |-> EmptyMap, WorkbookRels |-> EmptyMap, RichDataRels |-> EmptyMap,
     DefaultContentTypes |-> Put(Put(EmptyMap, <<"x","m","l">>, ContentTypeXml), <<"r","e","l","s">>, ContentTypeRels),
     PartContentTypes |-> EmptyMap,
     sharedStrings |-> <<>>, sharedStringMap |-> EmptyMap,
     media |-> <<>>, mediaMap |-> EmptyMap,
     xfs |-> <<>>, fonts |-> <<>>]

\* A variant that appends the text without looking it up.
SharedStringAlwaysAppend(wr, text) ==
    [w |-> [wr EXCEPT !.sharedStrings = Append(@, text),
                      !.sharedStringMap = Put(@, text, Len(wr.sharedStrings))],
     i |-> Len(wr.sharedStrings)]

\* Writer.SharedString: the Writer after the call and the index returned.
SharedString(wr, text) ==
    IF text \in DOMAIN wr.sharedStringMap
    THEN [w |-> wr, i |-> wr.sharedStringMap[text]]
    ELSE [w |-> [wr EXCEPT !.sharedStrings = Append(@, text),
                           !.sharedStringMap = Put(@, text, Len(wr.sharedStrings))],
          i |-> Len(wr.sharedStrings)]

nextGlobalID(wr) ==
    [w |-> [wr EXCEPT !.lastGlobalId = @ + 1],
     id |-> wr.lastGlobalId + 1, rid |-> RId(wr.lastGlobalId + 1)]

\* A variant that returns the next id and leaves the counter as it is.
nextWorkbookIDWithoutIncrement(wr) ==
    [w |-> wr, id |-> wr.lastWorkbookId + 1, rid |-> RId(wr.lastWorkbookId + 1)]

nextWorkbookID(wr) ==
    [w |-> [wr EXCEPT !.lastWorkbookId = @ + 1],
     id |-> wr.lastWorkbookId + 1, rid |-> RId(wr.lastWorkbookId + 1)]

nextRichDataID(wr) ==
    [w |-> [wr EXCEPT !.lastRichDataId = @ + 1],
     id |-> wr.lastRichDataId + 1, rid |-> RId(wr.lastRichDataId + 1)]

\* The 0-based index of the first element of list equal to v, -1 if none.
FindIndex(list, v) ==
    IF \E i \in 1..Len(list) : list[i] = v
    THEN (CHOOSE i \in 1..Len(list) :
             list[i] = v /\ \A j \in 1..(i - 1) : list[j] # v) - 1
    ELSE -1

\* A variant that finds no style.
FindXFNever(wr, xf) == -1

\* Writer.FindXF
FindXF(wr, xf) == FindIndex(wr.xfs, xf)

\* A variant that finds no font.
FindFontNever(wr, font) == -1

\* Writer.FindFont
FindFont(wr, font) == FindIndex(wr.fonts, font)

-----------------------------------------------------------------------------
(* writer.go: enumerate, the keys of a map in ascending order *)

\* The printable characters in the order of their codes, from the space on;
\* the double quote and the backquote, which no key contains, are left out.
Ascii ==
    <<
       " ", "!", "#", "$", "%", "&", "'", "(", ")", "*", "+", ",", "-", ".", "/",
       "0", "1", "2", "3", "4", "5", "6", "7", "8", "9", ":", ";", "<", "=", ">", "?",
       "@", "A", "B", "C", "D", "E", "F", "G", "H", "I", "J", "K", "L", "M", "N", "O",
       "P", "Q", "R", "S", "T", "U", "V", "W", "X", "Y", "Z", "[", "\\", "]", "^", "_",
       "a", "b", "c", "d", "e", "f", "g", "h", "i", "j", "k", "l", "m", "n", "o",
       "p", "q", "r", "s", "t", "u", "v", "w", "x", "y", "z", "{", "|", "}", "~" >>

AsciiCode == [c \in {Ascii[i] : i \in 1..Len(Ascii)} |-> Position(c, Ascii)]

\* a < b for Go strings
RECURSIVE StringLess(_, _)
StringLess(a, b) ==
    IF b = <<>> THEN FALSE
    ELSE IF a = <<>> THEN TRUE
    ELSE IF a[1] = b[1] THEN StringLess(Tail(a), Tail(b))
    ELSE AsciiCode[a[1]] < AsciiCode[b[1]]

\* A variant that sorts in descending order.
RECURSIVE SortStringsDescending(_)
SortStringsDescending(S) ==
    IF S = {} THEN <<>>
    ELSE LET m == CHOOSE k \in S : \A o \in S \ {k} : StringLess(o, k)
         IN  <<m>> \o SortStringsDescending(S \ {m})

RECURSIVE SortStrings(_)
SortStrings(S) ==
    IF S = {} THEN <<>>
    ELSE LET m == CHOOSE k \in S : \A o \in S \ {k} : StringLess(k, o)
         IN  <<m>> \o SortStrings(S \ {m})

RECURSIVE SortInts(_)
SortInts(S) ==
    IF S = {} THEN <<>>
    ELSE LET m == CHOOSE k \in S : \A o \in S : k <= o
         IN  <<m>> \o SortInts(S \ {m})

\* maps.Keys: the keys in the order in which the map iteration of this run
\* visits them, which Go does not fix; sorted is the keys in ascending order.
IterationOrder(sorted) ==
    IF seed = 0 THEN sorted
    ELSE [i \in 1..Len(sorted) |-> sorted[Len(sorted) + 1 - i]]

\* A variant that does not sort the keys.
enumerateUnsorted(m) ==
    LET keys == IterationOrder(SortStrings(DOMAIN m))
    IN  [i \in 1..Len(keys) |-> [key |-> keys[i], value |-> m[keys[i]]]]

\* The entries of a map with string keys, as enumerate visits them: the
\* keys of maps.Keys, sorted by slices.Sort.
enumerate(m) ==
    LET keys  == IterationOrder(SortStrings(DOMAIN m))
        keys1 == SortStrings({keys[i] : i \in 1..Len(keys)})
    IN  [i \in 1..Len(keys1) |-> [key |-> keys1[i], value |-> m[keys1[i]]]]

\* The entries of a map with integer keys, as enumerate visits them.
enumerateInts(m) ==
    LET keys  == IterationOrder(SortInts(DOMAIN m))
        keys1 == SortInts({keys[i] : i \in 1..Len(keys)})
    IN  [i \in 1..Len(keys1) |-> [key |-> keys1[i], value |-> m[keys1[i]]]]

-----------------------------------------------------------------------------
(* writer.go: the parts of the package *)

PartWorkbook ==
    [relpath |-> <<"x","l","/","w","o","r","k","b","o","o","k",".","x","m","l">>, abspath |-> <<"/","x","l","/","w","o","r","k","b","o","o","k",".","x","m","l">>,
     ContentType |-> "application/vnd.openxmlformats-officedocument.spreadsheetml.sheet.main+xml",
     Type |-> "http://schemas.openxmlformats.org/officeDocument/2006/relationships/officeDocument"]

PartSheet(name) ==
    [relpath |-> <<"w","o","r","k","s","h","e","e","t","s","/">> \o name \o <<".","x","m","l">>,
     abspath |-> <<"/","x","l","/">> \o <<"w","o","r","k","s","h","e","e","t","s","/">> \o name \o <<".","x","m","l">>,
     ContentType |-> "application/vnd.openxmlformats-officedocument.spreadsheetml.worksheet+xml",
     Type |-> "http://schemas.openxmlformats.org/officeDocument/2006/relationships/worksheet"]

PartCore ==
    [relpath |-> <<"d","o","c","P","r","o","p","s","/","c","o","r","e",".","x","m","l">>, abspath |-> <<"/","d","o","c","P","r","o","p","s","/","c","o","r","e",".","x","m","l">>,
     ContentType |-> "application/vnd.openxmlformats-package.core-properties+xml",
     Type |-> "http://schemas.openxmlformats.org/package/2006/relationships/metadata/core-properties"]

PartApp ==
    [relpath |-> <<"d","o","c","P","r","o","p","s","/","a","p","p",".","x","m","l">>, abspath |-> <<"/","d","o","c","P","r","o","p","s","/","a","p","p",".","x","m","l">>,
     ContentType |-> "application/vnd.openxmlformats-officedocument.extended-properties+xml",
     Type |-> "http://schemas.openxmlformats.org/officeDocument/2006/relationships/extended-properties"]

PartStyles ==
    [relpath |-> <<"s","t","y","l","e","s",".","x","m","l">>, abspath |-> <<"/","x","l","/","s","t","y","l","e","s",".","x","m","l">>,
     ContentType |-> "application/vnd.openxmlformats-officedocument.spreadsheetml.styles+xml",
     Type |-> "http://schemas.openxmlformats.org/officeDocument/2006/relationships/styles"]

PartSharedStrings ==
    [relpath |-> <<"s","h","a","r","e","d","S","t","r","i","n","g","s",".","x","m","l">>, abspath |-> <<"/","x","l","/","s","h","a","r","e","d","S","t","r","i","n","g","s",".","x","m","l">>,
     ContentType |-> "application/vnd.openxmlformats-officedocument.spreadsheetml.sharedStrings+xml",
     Type |-> "http://schemas.openxmlformats.org/officeDocument/2006/relationships/sharedStrings"]

PartMetadata ==
    [relpath |-> <<"m","e","t","a","d","a","t","a",".","x","m","l">>, abspath |-> <<"/","x","l","/","m","e","t","a","d","a","t","a",".","x","m","l">>,
     ContentType |-> "application/vnd.openxmlformats-officedocument.spreadsheetml.sheetMetadata+xml",
     Type |-> "http://schemas.openxmlformats.org/officeDocument/2006/relationships/sheetMetadata"]

PartRichValueRel ==
    [relpath |-> <<"r","i","c","h","D","a","t","a","/","r","i","c","h","V","a","l","u","e","R","e","l",".","x","m","l">>, abspath |-> <<"/","x","l","/","r","i","c","h","D","a","t","a","/","r","i","c","h","V","a","l","u","e","R","e","l",".","x","m","l">>,
     ContentType |-> "application/vnd.ms-excel.richvaluerel+xml",
     Type |-> "http://schemas.microsoft.com/office/2022/10/relationships/richValueRel"]

PartRichValueStructure ==
    [relpath |-> <<"r","i","c","h","D","a","t","a","/","r","d","r","i","c","h","v","a","l","u","e","s","t","r","u","c","t","u","r","e",".","x","m","l">>,
     abspath |-> <<"/","x","l","/","r","i","c","h","D","a","t","a","/","r","d","r","i","c","h","v","a","l","u","e","s","t","r","u","c","t","u","r","e",".","x","m","l">>,
     ContentType |-> "application/vnd.ms-excel.rdrichvaluestructure+xml",
     Type |-> "http://schemas.microsoft.com/office/2017/06/relationships/rdRichValueStructure"]

PartRichValueData ==
    [relpath |-> <<"r","i","c","h","D","a","t","a","/","r","d","r","i","c","h","v","a","l","u","e",".","x","m","l">>, abspath |-> <<"/","x","l","/","r","i","c","h","D","a","t","a","/","r","d","r","i","c","h","v","a","l","u","e",".","x","m","l">>,
     ContentType |-> "application/vnd.ms-excel.rdrichvalue+xml",
     Type |-> "http://schemas.microsoft.com/office/2017/06/relationships/rdRichValue"]

PathRichDataRels == <<"/","x","l","/","r","i","c","h","D","a","t","a","/","_","r","e","l","s","/","r","i","c","h","V","a","l","u","e","R","e","l",".","x","m","l",".","r","e","l","s">>
PathWorkbookRels == <<"/","x","l","/","_","r","e","l","s","/","w","o","r","k","b","o","o","k",".","x","m","l",".","r","e","l","s">>
PathGlobalRels   == <<"/","_","r","e","l","s","/",".","r","e","l","s">>
PathContentTypes == <<"[","C","o","n","t","e","n","t","_","T","y","p","e","s","]",".","x","m","l">>

MediaPath(name)   == <<"/","x","l","/","m","e","d","i","a","/">> \o name
\* A target that names the media directory without going up one level.
MediaTargetWithoutParent(name) == <<"m","e","d","i","a","/">> \o name
MediaTarget(name) == <<".",".","/","m","e","d","i","a","/">> \o name
TypeImage == "http://schemas.openxmlformats.org/officeDocument/2006/relationships/image"

ExtJpg  == <<".","j","p","g">>
ExtJpeg == <<".","j","p","e","g">>
ExtPng  == <<".","p","n","g">>

ErrMissingPicture == "missing picture data"
ErrEmptyPicture   == "empty picture data"
ErrUnsupportedExt(ext) == "unsupported image extension " \o Str(ext)

\* PartContentTypes[abspath] = ...; GlobalRels[rid] = RelInfo{...}
RegisterGlobal(wr, part, rid) ==
    [wr EXCEPT !.PartContentTypes = Put(@, part.abspath, part.ContentType),
               !.GlobalRels = Put(@, rid, [Type |-> part.Type, Target |-> part.relpath])]

\* A variant that enters no content type for the part.
RegisterWorkbookWithoutContentType(wr, part, rid) ==
    [wr EXCEPT !.WorkbookRels = Put(@, rid, [Type |-> part.Type, Target |-> part.relpath])]

\* PartContentTypes[abspath] = ...; WorkbookRels[rid] = RelInfo{...}
RegisterWorkbook(wr, part, rid) ==
    [wr EXCEPT !.PartContentTypes = Put(@, part.abspath, part.ContentType),
               !.WorkbookRels = Put(@, rid, [Type |-> part.Type, Target |-> part.relpath])]

-----------------------------------------------------------------------------
(* writer.go: writeSheet, one cell *)

\* strings.ToLower(ext), then ".jpg" becomes ".jpeg"
NormalizeExt(ext) == IF ToLower(ext) = ExtJpg THEN ExtJpeg ELSE ToLower(ext)

\* fmt.Sprintf("%.16x%s", BlobHash(blob), ext)
MediaName(blob, ext) == HexLow(BlobHash(blob)) \o ext

\* A variant that finds no media record.
FindMediaNever(wr, n) == FALSE

\* info, ok := w.mediaMap[n]
FindMedia(wr, n) == n \in DOMAIN wr.mediaMap

\* A variant that counts the internal ids from 1.
AddMediaOneBased(wr, n, blob) ==
    LET id   == nextRichDataID(wr)
        info == [Name |-> n, Blob |-> blob, IId |-> Len(wr.media) + 1, RId |-> id.rid]
    IN  [id.w EXCEPT !.mediaMap = Put(@, n, info), !.media = Append(@, info)]

\* The new MediaInfo for name n, entered in mediaMap and appended to media.
AddMedia(wr, n, blob) ==
    LET id   == nextRichDataID(wr)
        info == [Name |-> n, Blob |-> blob, IId |-> Len(wr.media), RId |-> id.rid]
    IN  [id.w EXCEPT !.mediaMap = Put(@, n, info), !.media = Append(@, info)]

\* The style attribute of a cell: s is <<>> when the attribute is not written.
\* A style registration that puts a new style in front of the list.
StyleIndexPrepending(wr, xf) ==
    IF XFEmpty(xf) THEN [w |-> wr, s |-> <<>>]
    ELSE IF FindXF(wr, xf) < 0
         THEN [w |-> [wr EXCEPT !.xfs = <<xf>> \o @], s |-> <<Len(wr.xfs) + 1>>]
         ELSE [w |-> wr, s |-> <<FindXF(wr, xf) + 1>>]

StyleIndex(wr, xf) ==
    IF XFEmpty(xf) THEN [w |-> wr, s |-> <<>>]
    ELSE IF FindXF(wr, xf) < 0
         THEN [w |-> [wr EXCEPT !.xfs = Append(@, xf)], s |-> <<Len(wr.xfs) + 1>>]
         ELSE [w |-> wr, s |-> <<FindXF(wr, xf) + 1>>]

\* A variant that accepts a picture with no bytes.
PictureCellAcceptingEmpty(wr, picture) ==
    IF picture = Nil
    THEN [w |-> wr, err |-> ErrMissingPicture, vm |-> <<>>]
    ELSE LET ext == NormalizeExt(picture[1].Extension)
             n   == MediaName(picture[1].Blob, ext)
             w2  == IF FindMedia(wr, n) THEN wr ELSE AddMedia(wr, n, picture[1].Blob)
         IN  IF ext # ExtJpeg /\ ext # ExtPng
             THEN [w |-> wr, err |-> ErrUnsupportedExt(ext), vm |-> <<>>]
             ELSE [w |-> w2, err |-> NoError, vm |-> <<w2.mediaMap[n].IId + 1>>]

\* case cellTypePicture
PictureCell(wr, picture) ==
    IF picture = Nil
    THEN [w |-> wr, err |-> ErrMissingPicture, vm |-> <<>>]
    ELSE LET ext == NormalizeExt(picture[1].Extension)
             n   == MediaName(picture[1].Blob, ext)
             w1  == IF ext = ExtJpeg
                    THEN [wr EXCEPT !.DefaultContentTypes = Put(@, <<"j","p","e","g">>, "image/jpeg")]
                    ELSE [wr EXCEPT !.DefaultContentTypes = Put(@, <<"p","n","g">>, "image/png")]
             w2  == IF FindMedia(w1, n) THEN w1 ELSE AddMedia(w1, n, picture[1].Blob)
         IN  IF ext # ExtJpeg /\ ext # ExtPng
             THEN [w |-> wr, err |-> ErrUnsupportedExt(ext), vm |-> <<>>]
             ELSE IF Len(w2.mediaMap[n].Blob) = 0
             THEN [w |-> w2, err |-> ErrEmptyPicture, vm |-> <<>>]
             ELSE [w |-> w2, err |-> NoError, vm |-> <<w2.mediaMap[n].IId + 1>>]

\* The <c> element of a cell; an attribute or the <v> child that is not
\* written is <<>>.
EmitCell(wr, cell) ==
    LET st   == StyleIndex(wr, cell.XF)
        base == [r |-> cell.coord, s |-> st.s, t |-> <<>>, vm |-> <<>>, v |-> <<>>]
    IN  CASE cell.typ = CellTypeBool ->
               [w |-> st.w, err |-> NoError,
                c |-> [base EXCEPT !.t = <<"b">>, !.v = <<cell.v>>]]
          [] cell.typ = CellTypeNumber ->
               [w |-> st.w, err |-> NoError,
                c |-> [base EXCEPT !.t = <<"n">>, !.v = <<cell.v>>]]
          [] cell.typ = CellTypeError ->
               [w |-> st.w, err |-> NoError,
                c |-> [base EXCEPT !.t = <<"e">>, !.v = <<cell.v>>]]
          [] cell.typ = CellTypeSharedString ->
               LET ss == SharedString(st.w, cell.v)
               IN  [w |-> ss.w, err |-> NoError,
                    c |-> [base EXCEPT !.t = <<"s">>, !.v = <<Str(Itoa(ss.i))>>]]
          [] cell.typ = cellTypePicture ->
               LET p == PictureCell(st.w, cell.picture)
               IN  [w |-> p.w, err |-> p.err,
                    c |-> [base EXCEPT !.t = <<"e">>, !.vm = p.vm, !.v = <<"#VALUE!">>]]
          [] OTHER -> [w |-> st.w, err |-> NoError, c |-> base]

-----------------------------------------------------------------------------
(* writer.go: the contents of the parts *)

\* The <cols> element: one <col> for each entry of sh.Columns.
ColsOf(sh) ==
    LET cols == enumerateInts(sh.Columns)
    IN  [i \in 1..Len(cols) |->
           [min |-> cols[i].key, max |-> cols[i].key,
            width |-> IF cols[i].value.Width > 0 THEN <<cols[i].value.Width>> ELSE <<>>]]

RowElement(row) ==
    [r |-> row.rowNumber, ht |-> IF row.Height > 0 THEN <<row.Height>> ELSE <<>>,
     c |-> <<>>]

WorksheetBody(xs, sh) ==
    [kind |-> "worksheet", cols |-> xs.cols, rows |-> xs.rows,
     mergeCells |-> [i \in 1..Len(sh.MergeCells) |-> sh.MergeCells[i].Ref]]

WorkbookBody(xw) == [kind |-> "workbook", sheets |-> xw]

RelsBody(rels) ==
    LET e == enumerate(rels)
    IN  [kind |-> "rels",
         Relationships |-> [i \in 1..Len(e) |->
             [Id |-> e[i].key, Type |-> e[i].value.Type, Target |-> e[i].value.Target]]]

ContentTypesBody(wr) ==
    LET d == enumerate(wr.DefaultContentTypes)
        o == enumerate(wr.PartContentTypes)
    IN  [kind |-> "types",
         Default  |-> [i \in 1..Len(d) |-> [Extension |-> d[i].key, ContentType |-> d[i].value]],
         Override |-> [i \in 1..Len(o) |-> [PartName |-> o[i].key, ContentType |-> o[i].value]]]

SharedStringsBody(wr) ==
    [kind |-> "sst", count |-> Len(wr.sharedStrings), uniqueCount |-> Len(wr.sharedStrings),
     si |-> wr.sharedStrings]

\* A variant that also puts the default style in front of w.xfs.
CollectFontsAndDefaultStyle(wr, i) == [wr EXCEPT !.xfs = <<DefaultXF>> \o @]

\* writeStyles: the fonts of the styles, collected into w.fonts.
RECURSIVE CollectFonts(_, _)
CollectFonts(wr, i) ==
    IF i > Len(wr.xfs) THEN wr
    ELSE IF ~FontIsDefault(wr.xfs[i].Font) /\ FindFont(wr, wr.xfs[i].Font) < 0
    THEN CollectFonts([wr EXCEPT !.fonts = Append(@, wr.xfs[i].Font)], i + 1)
    ELSE CollectFonts(wr, i + 1)

DefaultFontSize == 11

FontElement(font) ==
    [b |-> font.Bold, i |-> font.Italic, strike |-> font.Strikethrough,
     u |-> IF font.Underline = UnderlineNone THEN <<>> ELSE <<font.Underline>>,
     sz |-> IF font.Size = 0 THEN DefaultFontSize ELSE font.Size]

XfElement(wr, xf) ==
    [fontId |-> IF ~FontIsDefault(xf.Font) /\ FindFont(wr, xf.Font) >= 0
                THEN FindFont(wr, xf.Font) + 1 ELSE 0,
     applyFont |-> ~FontIsDefault(xf.Font),
     applyAlignment |-> ~AlignmentEmpty(xf.Alignment),
     horizontal |-> xf.Alignment.Horizontal, vertical |-> xf.Alignment.Vertical]

\* wr is the Writer after the fonts were collected.
StylesBody(wr) ==
    [kind |-> "styles",
     fontCount |-> Len(wr.fonts) + 1,
     fonts |-> <<FontElement(DefaultFont)>> \o
               [i \in 1..Len(wr.fonts) |-> FontElement(wr.fonts[i])],
     cellXfsCount |-> Len(wr.xfs) + 1,
     cellXfs |-> <<XfElement(wr, DefaultXF)>> \o
                 [i \in 1..Len(wr.xfs) |-> XfElement(wr, wr.xfs[i])]]

RichValueRelBody(wr) ==
    [kind |-> "richValueRels", rel |-> [i \in 1..Len(wr.media) |-> wr.media[i].RId]]

RichValueStructureBody == [kind |-> "rvStructures", count |-> 1]

\* A variant that writes the 1-based position of each record.
RichValueDataBodyOneBased(wr) ==
    [kind |-> "rvData", count |-> Len(wr.media),
     rv |-> [i \in 1..Len(wr.media) |-> i]]

RichValueDataBody(wr) ==
    [kind |-> "rvData", count |-> Len(wr.media),
     rv |-> [i \in 1..Len(wr.media) |-> wr.media[i].IId]]

MetadataBody(wr) ==
    [kind |-> "metadata",
     futureCount |-> Len(wr.media),
     futureMetadata |-> [i \in 1..Len(wr.media) |-> wr.media[i].IId],
     valueCount |-> Len(wr.media),
     valueMetadata |-> [i \in 1..Len(wr.media) |-> wr.media[i].IId]]

CoreBody(t) == [kind |-> "core", created |-> t]

AppBody(appname) ==
    [kind |-> "app", Application |-> IF appname # "" THEN <<appname>> ELSE <<>>]

BlobBody(blob) == [kind |-> "blob", bytes |-> blob]

-----------------------------------------------------------------------------
(* The workbooks Write is called with *)

MaxCells == 2

BoldFont      == [DefaultFont EXCEPT !.Bold = TRUE]
BigItalicFont == [DefaultFont EXCEPT !.Italic = TRUE, !.Size = 14]

BoldXF       == [DefaultXF EXCEPT !.Font = BoldFont]
CenterXF     == [DefaultXF EXCEPT !.Alignment.Horizontal = "center"]
BoldCenterXF == [BoldXF EXCEPT !.Alignment.Horizontal = "center"]
BigItalicXF  == [DefaultXF EXCEPT !.Font = BigItalicFont]

BlobA     == <<137, 80>>
BlobB     == <<255, 216>>
EmptyBlob == <<>>

\* &PictureInfo{Extension: ext, Blob: blob}
Picture(ext, blob) == <<[Extension |-> ext, Blob |-> blob]>>

Blank == NewCell(1, 1)

\* What the cells of a workbook are set to.
CellInputs ==
    { Blank,
      SetStr(Blank, "a"),
      WithXF(SetStr(Blank, "a"), BoldXF),
      WithXF(SetStr(Blank, "b"), BoldCenterXF),
      WithXF(SetBool(Blank, TRUE), CenterXF),
      WithXF(SetInt(Blank, 42), BigItalicXF),
      SetPicture(Blank, Picture(<<".","p","n","g">>, BlobA)),
      WithXF(SetPicture(Blank, Picture(<<".","J","P","G">>, BlobA)), BoldXF),
      SetPicture(Blank, Picture(<<".","j","p","e","g">>, BlobA)),
      WithXF(SetPicture(Blank, Picture(<<".","p","n","g">>, BlobB)), CenterXF),
      SetPicture(Blank, Nil),
      SetPicture(Blank, Picture(<<".","g","i","f">>, BlobA)),
      SetPicture(Blank, Picture(<<".","p","n","g">>, EmptyBlob)) }

CellSeqs == UNION { [1..n -> CellInputs] : n \in 0..MaxCells }

\* The row AddRow returns as row number n, after one AddCell for each element
\* of cs, the cells set as in cs.
RowWith(n, cs, height) ==
    [Cells |-> [j \in 1..Len(cs) |->
                  [cs[j] EXCEPT !.columnNumber = j, !.coord = CellCoordAsString(j, n)]],
     Height |-> height, rowNumber |-> n, nextColumnNumber |-> Len(cs) + 1]

SheetWith(name, rows, columns) ==
    [NewSheet(name) EXCEPT !.Rows = rows, !.Columns = columns,
                           !.nextRowNumber = Len(rows) + 1]

\* First sheet: one row with the cells cs, or no row.
SheetOne(cs) ==
    SheetWith(<<"S","1">>, IF cs = <<>> THEN <<>> ELSE <<RowWith(1, cs, 0)>>, EmptyMap)

\* Second sheet: a row without cells and with a height, then a row with the
\* cells cs if there are any; two columns have a width.
SheetTwo(cs) ==
    SheetWith(<<"a","'","b">>,
              <<RowWith(1, <<>>, 20)>> \o (IF cs = <<>> THEN <<>> ELSE <<RowWith(2, cs, 0)>>),
              Put(Put(EmptyMap, 2, [Width |-> 12]), 1, [Width |-> 9]))

Workbooks ==
    {<<>>}
    \cup { <<SheetOne(cs)>> : cs \in CellSeqs }
    \cup UNION { { <<SheetOne(SubSeq(cs, 1, k)), SheetTwo(SubSeq(cs, k + 1, Len(cs)))>> :
                     k \in 1..Len(cs) } : cs \in CellSeqs }

AppNames == {"", "My App"}

\* What time.Now().UTC().Format(time.RFC3339) returns.
CreatedTimes == {"2024-01-01T00:00:00Z", "2024-01-01T00:00:01Z"}

\* The errors of Storage.WriteBlob.
SinkErrors == {"write failed"}

-----------------------------------------------------------------------------
(* writer.go: Write, step by step *)

writeVars == <<AppName, w, out, pc, at, xSheet, xWorkbook, err, ret, emitted>>

NoBuffer == [cols |-> <<>>, rows |-> <<>>]

\* A variant that goes on after an error.
AfterStepIgnoringError(e, next) == next

\* if err != nil { return err }
AfterStep(e, next) == IF e # NoError THEN "return" ELSE next

\* w.out.WriteBlob(path, body): the sink takes the blob or returns an error.
WriteBlob(path, body, wFail, wOk, next, atNext) ==
    \E e \in {NoError} \cup SinkErrors :
        /\ out' = Append(out, [path |-> path, body |-> body, err |-> e])
        /\ err' = e
        /\ w' = IF e = NoError THEN wOk ELSE wFail
        /\ pc' = AfterStep(e, next)
        /\ at' = IF e = NoError THEN atNext ELSE at

NextAfterStrings(wr) == IF Len(wr.xfs) > 0 THEN "writeStyles" ELSE "writeWorkbookRels"

\* A variant that always writes the shared strings.
NextAfterAppAlwaysStrings(wr) == "writeSharedStrings"

NextAfterApp(wr) ==
    IF Len(wr.sharedStrings) > 0 THEN "writeSharedStrings" ELSE NextAfterStrings(wr)

\* Write calls writeWorkbook, which registers the workbook part.
Write ==
    /\ pc = "Write"
    /\ \E id \in {nextGlobalID(w)} : w' = RegisterGlobal(id.w, PartWorkbook, id.rid)
    /\ xWorkbook' = <<>>
    /\ pc' = "sheets"
    /\ at' = [at EXCEPT !.sheet = 1]
    /\ UNCHANGED <<AppName, out, xSheet, err, ret, emitted>>

\* writeWorkbook: the <sheet> element of the next sheet; writeSheet begins.
writeSheet ==
    /\ pc = "sheets"
    /\ at.sheet <= Len(Sheets)
    /\ \E id \in {nextWorkbookID(w)} :
         /\ xWorkbook' = Append(xWorkbook, [name |-> Sheets[at.sheet].Name,
                                            sheetId |-> id.id, rid |-> id.rid])
         /\ w' = RegisterWorkbook(id.w, PartSheet(Sheets[at.sheet].Name), id.rid)
    /\ xSheet' = [cols |-> ColsOf(Sheets[at.sheet]), rows |-> <<>>]
    /\ pc' = "rows"
    /\ at' = [at EXCEPT !.row = 1]
    /\ UNCHANGED <<AppName, out, err, ret, emitted>>

\* writeSheet: the <row> element of the next row.
writeRow ==
    /\ pc = "rows"
    /\ at.row <= Len(Sheets[at.sheet].Rows)
    /\ xSheet' = [xSheet EXCEPT !.rows = Append(@, RowElement(Sheets[at.sheet].Rows[at.row]))]
    /\ IF Len(Sheets[at.sheet].Rows[at.row].Cells) > 0
       THEN pc' = "cells" /\ at' = [at EXCEPT !.cell = 1]
       ELSE pc' = "rows" /\ at' = [at EXCEPT !.row = @ + 1]
    /\ UNCHANGED <<AppName, w, out, xWorkbook, err, ret, emitted>>

\* A variant that resets the style of the cell once it has read it.
writeCellResettingStyle ==
    /\ pc = "cells"
    /\ \E r \in {EmitCell(w, Sheets[at.sheet].Rows[at.row].Cells[at.cell])} :
         /\ w' = r.w
         /\ err' = r.err
         /\ IF r.err # NoError
            THEN /\ pc' = AfterStep(r.err, pc)
                 /\ UNCHANGED <<at, xSheet, emitted>>
            ELSE /\ xSheet' = [xSheet EXCEPT !.rows[Len(xSheet.rows)].c = Append(@, r.c)]
                 /\ emitted' = Append(emitted, [sheet |-> at.sheet, row |-> at.row,
                                                cell |-> at.cell, c |-> r.c])
                 /\ IF at.cell < Len(Sheets[at.sheet].Rows[at.row].Cells)
                    THEN pc' = "cells" /\ at' = [at EXCEPT !.cell = @ + 1]
                    ELSE pc' = "rows" /\ at' = [at EXCEPT !.row = @ + 1]
    /\ Sheets' = [Sheets EXCEPT ![at.sheet].Rows[at.row].Cells[at.cell].XF = DefaultXF]
    /\ UNCHANGED <<AppName, out, xWorkbook, ret>>
    /\ UNCHANGED <<sheetMap, last, addedNames, accepted>>

\* writeSheet: the <c> element of the next cell of the row.  The Writer keeps
\* pointers to the style and to the picture bytes of the cell and writes
\* through neither.
writeCell ==
    /\ pc = "cells"
    /\ \E r \in {EmitCell(w, Sheets[at.sheet].Rows[at.row].Cells[at.cell])} :
         /\ w' = r.w
         /\ err' = r.err
         /\ IF r.err # NoError
            THEN /\ pc' = AfterStep(r.err, pc)
                 /\ UNCHANGED <<at, xSheet, emitted>>
            ELSE /\ xSheet' = [xSheet EXCEPT !.rows[Len(xSheet.rows)].c = Append(@, r.c)]
                 /\ emitted' = Append(emitted, [sheet |-> at.sheet, row |-> at.row,
                                                cell |-> at.cell, c |-> r.c])
                 /\ IF at.cell < Len(Sheets[at.sheet].Rows[at.row].Cells)
                    THEN pc' = "cells" /\ at' = [at EXCEPT !.cell = @ + 1]
                    ELSE pc' = "rows" /\ at' = [at EXCEPT !.row = @ + 1]
    /\ UNCHANGED <<AppName, out, xWorkbook, ret>>
    /\ UNCHANGED docVars

\* writeSheet: after the last row, the worksheet is written.
writeSheetBlob ==
    /\ pc = "rows"
    /\ at.row > Len(Sheets[at.sheet].Rows)
    /\ WriteBlob(PartSheet(Sheets[at.sheet].Name).abspath,
                 WorksheetBody(xSheet, Sheets[at.sheet]), w, w,
                 "sheets", [at EXCEPT !.sheet = @ + 1])
    /\ xSheet' = NoBuffer
    /\ UNCHANGED <<AppName, xWorkbook, ret, emitted>>

\* writeWorkbook: after the last sheet, the workbook part is written.
writeWorkbook ==
    /\ pc = "sheets"
    /\ at.sheet > Len(Sheets)
    /\ WriteBlob(PartWorkbook.abspath, WorkbookBody(xWorkbook), w, w,
                 IF Len(w.media) > 0 THEN "writeMedia" ELSE "writeCoreProperties",
                 [at EXCEPT !.media = 1])
    /\ UNCHANGED <<AppName, xSheet, xWorkbook, ret, emitted>>

\* writeMedia: the blob of the next media record, then its relationship.
writeMedia ==
    /\ pc = "writeMedia"
    /\ WriteBlob(MediaPath(w.media[at.media].Name), BlobBody(w.media[at.media].Blob),
                 w,
                 [w EXCEPT !.RichDataRels =
                     Put(@, w.media[at.media].RId,
                         [Type |-> TypeImage, Target |-> MediaTarget(w.media[at.media].Name)])],
                 IF at.media < Len(w.media) THEN "writeMedia" ELSE "writeRichValueRel",
                 [at EXCEPT !.media = @ + 1])
    /\ UNCHANGED <<AppName, xSheet, xWorkbook, ret, emitted>>

writeRichValueRel ==
    /\ pc = "writeRichValueRel"
    /\ \E id \in {nextWorkbookID(w)} :
       \E wr \in {RegisterWorkbook(id.w, PartRichValueRel, id.rid)} :
         WriteBlob(PartRichValueRel.abspath, RichValueRelBody(wr), wr, wr,
                   "writeRichDataRels", at)
    /\ UNCHANGED <<AppName, xSheet, xWorkbook, ret, emitted>>

\* w.writeRels("/xl/richData/_rels/richValueRel.xml.rels", w.RichDataRels)
writeRichDataRels ==
    /\ pc = "writeRichDataRels"
    /\ WriteBlob(PathRichDataRels, RelsBody(w.RichDataRels), w, w,
                 "writeRichValueStructure", at)
    /\ UNCHANGED <<AppName, xSheet, xWorkbook, ret, emitted>>

writeRichValueStructure ==
    /\ pc = "writeRichValueStructure"
    /\ \E id \in {nextWorkbookID(w)} :
       \E wr \in {RegisterWorkbook(id.w, PartRichValueStructure, id.rid)} :
         WriteBlob(PartRichValueStructure.abspath, RichValueStructureBody, wr, wr,
                   "writeRichValueData", at)
    /\ UNCHANGED <<AppName, xSheet, xWorkbook, ret, emitted>>

writeRichValueData ==
    /\ pc = "writeRichValueData"
    /\ \E id \in {nextWorkbookID(w)} :
       \E wr \in {RegisterWorkbook(id.w, PartRichValueData, id.rid)} :
         WriteBlob(PartRichValueData.abspath, RichValueDataBody(wr), wr, wr,
                   "writeMetadata", at)
    /\ UNCHANGED <<AppName, xSheet, xWorkbook, ret, emitted>>

writeMetadata ==
    /\ pc = "writeMetadata"
    /\ \E id \in {nextWorkbookID(w)} :
       \E wr \in {RegisterWorkbook(id.w, PartMetadata, id.rid)} :
         WriteBlob(PartMetadata.abspath, MetadataBody(wr), wr, wr,
                   "writeCoreProperties", at)
    /\ UNCHANGED <<AppName, xSheet, xWorkbook, ret, emitted>>

writeCoreProperties ==
    /\ pc = "writeCoreProperties"
    /\ \E id \in {nextGlobalID(w)}, t \in CreatedTimes :
       \E wr \in {RegisterGlobal(id.w, PartCore, id.rid)} :
         WriteBlob(PartCore.abspath, CoreBody(t), wr, wr, "writeExtendedProperties", at)
    /\ UNCHANGED <<AppName, xSheet, xWorkbook, ret, emitted>>

writeExtendedProperties ==
    /\ pc = "writeExtendedProperties"
    /\ \E id \in {nextGlobalID(w)} :
       \E wr \in {RegisterGlobal(id.w, PartApp, id.rid)} :
         WriteBlob(PartApp.abspath, AppBody(AppName), wr, wr, NextAfterApp(wr), at)
    /\ UNCHANGED <<AppName, xSheet, xWorkbook, ret, emitted>>

writeSharedStrings ==
    /\ pc = "writeSharedStrings"
    /\ \E id \in {nextWorkbookID(w)} :
       \E wr \in {RegisterWorkbook(id.w, PartSharedStrings, id.rid)} :
         WriteBlob(PartSharedStrings.abspath, SharedStringsBody(wr), wr, wr,
                   NextAfterStrings(wr), at)
    /\ UNCHANGED <<AppName, xSheet, xWorkbook, ret, emitted>>

writeStyles ==
    /\ pc = "writeStyles"
    /\ \E id \in {nextWorkbookID(w)} :
       \E wr \in {CollectFonts(RegisterWorkbook(id.w, PartStyles, id.rid), 1)} :
         WriteBlob(PartStyles.abspath, StylesBody(wr), wr, wr, "writeWorkbookRels", at)
    /\ UNCHANGED <<AppName, xSheet, xWorkbook, ret, emitted>>

\* w.writeRels("/xl/_rels/workbook.xml.rels", w.WorkbookRels)
writeWorkbookRels ==
    /\ pc = "writeWorkbookRels"
    /\ WriteBlob(PathWorkbookRels, RelsBody(w.WorkbookRels), w, w, "writeGlobalRels", at)
    /\ UNCHANGED <<AppName, xSheet, xWorkbook, ret, emitted>>

\* w.writeRels("/_rels/.rels", w.GlobalRels)
writeGlobalRels ==
    /\ pc = "writeGlobalRels"
    /\ WriteBlob(PathGlobalRels, RelsBody(w.GlobalRels), w, w, "writeContentTypes", at)
    /\ UNCHANGED <<AppName, xSheet, xWorkbook, ret, emitted>>

writeContentTypes ==
    /\ pc = "writeContentTypes"
    /\ WriteBlob(PathContentTypes, ContentTypesBody(w), w, w, "return", at)
    /\ UNCHANGED <<AppName, xSheet, xWorkbook, ret, emitted>>

\* Write returns err: the error of the step that failed, or nil.
Return ==
    /\ pc = "return"
    /\ ret' = <<err>>
    /\ pc' = "done"
    /\ UNCHANGED <<AppName, w, out, at, xSheet, xWorkbook, err, emitted>>

-----------------------------------------------------------------------------
runVars == <<seed, prev>>

vars == <<docVars, colVars, writeVars, runVars>>

DocInit ==
    /\ Sheets = <<>>
    /\ sheetMap = <<>>
    /\ last = NoCall
    /\ addedNames = {}
    /\ accepted = <<>>

WriteIdle ==
    /\ AppName = ""
    /\ w = NewWriter
    /\ out = <<>>
    /\ pc = "idle"
    /\ at = [sheet |-> 0, row |-> 0, cell |-> 0, media |-> 0]
    /\ xSheet = NoBuffer
    /\ xWorkbook = <<>>
    /\ err = NoError
    /\ ret = <<>>
    /\ emitted = <<>>

\* One run, its maps iterated in ascending order of the keys.
RunIdle ==
    /\ seed = 0
    /\ prev = <<>>

ColIdle ==
    /\ colN = 0
    /\ colRow = 0
    /\ colText = <<>>
    /\ colParsed = NoRef
    /\ colPc = "idle"

-----------------------------------------------------------------------------
(* Spec: one sheet, added by AddSheet, and Merge and MergeRange calls on it *)

Init == DocInit /\ ColIdle /\ WriteIdle /\ RunIdle

Next ==
    \/ \E name \in MergeSheetNames : AddSheet(name) /\ UNCHANGED <<colVars, writeVars, runVars>>
    \/ \E s \in 1..Len(Sheets), ref \in MergeRefs : Merge(s, ref) /\ UNCHANGED <<colVars, writeVars, runVars>>
    \/ \E s \in 1..Len(Sheets), c \in MergeCoords : MergeRange(s, c) /\ UNCHANGED <<colVars, writeVars, runVars>>

Spec == Init /\ [][Next]_vars

-----------------------------------------------------------------------------
(* SpecBook: a workbook and AddSheet calls on it *)

InitBook == DocInit /\ ColIdle /\ WriteIdle /\ RunIdle

NextBook == \E name \in SheetNames : AddSheet(name) /\ UNCHANGED <<colVars, writeVars, runVars>>

SpecBook == InitBook /\ [][NextBook]_vars

-----------------------------------------------------------------------------
(* SpecCol: ColumnNumberAsLetters and parseCellRef on every column number   *)

InitCol ==
    /\ DocInit
    /\ colN \in 1..MaxColumn
    /\ colRow \in ColRows
    /\ colText = <<>>
    /\ colParsed = NoRef
    /\ colPc = "input"
    /\ WriteIdle
    /\ RunIdle

NextCol ==
    \/ Encode /\ UNCHANGED <<docVars, writeVars, runVars>>
    \/ Decode /\ UNCHANGED <<docVars, writeVars, runVars>>

SpecCol == InitCol /\ [][NextCol]_vars

-----------------------------------------------------------------------------
(* SpecWrite: one Write of a workbook to a new Writer *)

InitWrite ==
    /\ Sheets \in Workbooks
    /\ sheetMap = [n \in {Sheets[i].Name : i \in 1..Len(Sheets)} |->
                     CHOOSE i \in 1..Len(Sheets) : Sheets[i].Name = n]
    /\ last = NoCall
    /\ addedNames = {Sheets[i].Name : i \in 1..Len(Sheets)}
    /\ accepted = [i \in 1..Len(Sheets) |-> <<>>]
    /\ ColIdle
    /\ AppName \in AppNames
    /\ w = NewWriter
    /\ out = <<>>
    /\ pc = "Write"
    /\ at = [sheet |-> 0, row |-> 0, cell |-> 0, media |-> 0]
    /\ xSheet = NoBuffer
    /\ xWorkbook = <<>>
    /\ err = NoError
    /\ ret = <<>>
    /\ emitted = <<>>
    /\ RunIdle

NextWrite ==
    \/ Write /\ UNCHANGED <<docVars, colVars, runVars>>
    \/ writeSheet /\ UNCHANGED <<docVars, colVars, runVars>>
    \/ writeRow /\ UNCHANGED <<docVars, colVars, runVars>>
    \/ writeCell /\ UNCHANGED <<colVars, runVars>>
    \/ writeSheetBlob /\ UNCHANGED <<docVars, colVars, runVars>>
    \/ writeWorkbook /\ UNCHANGED <<docVars, colVars, runVars>>
    \/ writeMedia /\ UNCHANGED <<docVars, colVars, runVars>>
    \/ writeRichValueRel /\ UNCHANGED <<docVars, colVars, runVars>>
    \/ writeRichDataRels /\ UNCHANGED <<docVars, colVars, runVars>>
    \/ writeRichValueStructure /\ UNCHANGED <<docVars, colVars, runVars>>
    \/ writeRichValueData /\ UNCHANGED <<docVars, colVars, runVars>>
    \/ writeMetadata /\ UNCHANGED <<docVars, colVars, runVars>>
    \/ writeCoreProperties /\ UNCHANGED <<docVars, colVars, runVars>>
    \/ writeExtendedProperties /\ UNCHANGED <<docVars, colVars, runVars>>
    \/ writeSharedStrings /\ UNCHANGED <<docVars, colVars, runVars>>
    \/ writeStyles /\ UNCHANGED <<docVars, colVars, runVars>>
    \/ writeWorkbookRels /\ UNCHANGED <<docVars, colVars, runVars>>
    \/ writeGlobalRels /\ UNCHANGED <<docVars, colVars, runVars>>
    \/ writeContentTypes /\ UNCHANGED <<docVars, colVars, runVars>>
    \/ Return /\ UNCHANGED <<docVars, colVars, runVars>>

SpecWrite == InitWrite /\ [][NextWrite]_vars

-----------------------------------------------------------------------------
(* SpecRerun: a Write of a workbook, then a Write of the same workbook to a *)
(* new Writer                                                               *)

\* The cells of the workbooks written twice.
RerunCells ==
    { WithXF(SetStr(Blank, "a"), BoldXF),
      WithXF(SetStr(Blank, "b"), BoldCenterXF),
      SetPicture(Blank, Picture(<<".","p","n","g">>, BlobA)),
      WithXF(SetPicture(Blank, Picture(<<".","J","P","G">>, BlobA)), BoldXF) }

RerunWorkbooks ==
    {wb \in Workbooks :
        \A i \in 1..Len(wb) : \A j \in 1..Len(wb[i].Rows) :
           \A k \in 1..Len(wb[i].Rows[j].Cells) :
              \E c \in RerunCells :
                 wb[i].Rows[j].Cells[k] =
                    [c EXCEPT !.columnNumber = k, !.coord = CellCoordAsString(k, j)]}

\* The orders in which a run's map iterations visit the keys: 0 ascending,
\* 1 descending.
Seeds == {0, 1}

InitRerun ==
    /\ Sheets \in RerunWorkbooks
    /\ sheetMap = [n \in {Sheets[i].Name : i \in 1..Len(Sheets)} |->
                     CHOOSE i \in 1..Len(Sheets) : Sheets[i].Name = n]
    /\ last = NoCall
    /\ addedNames = {Sheets[i].Name : i \in 1..Len(Sheets)}
    /\ accepted = [i \in 1..Len(Sheets) |-> <<>>]
    /\ ColIdle
    /\ AppName = "My App"
    /\ w = NewWriter
    /\ out = <<>>
    /\ pc = "Write"
    /\ at = [sheet |-> 0, row |-> 0, cell |-> 0, media |-> 0]
    /\ xSheet = NoBuffer
    /\ xWorkbook = <<>>
    /\ err = NoError
    /\ ret = <<>>
    /\ emitted = <<>>
    /\ seed \in Seeds
    /\ prev = <<>>

\* NewWriter and Write again, on the workbook of a Write that returned nil.
Rerun ==
    /\ pc = "done"
    /\ ret = <<NoError>>
    /\ prev = <<>>
    /\ prev' = <<out>>
    /\ seed' \in Seeds
    /\ w' = NewWriter
    /\ out' = <<>>
    /\ pc' = "Write"
    /\ at' = [sheet |-> 0, row |-> 0, cell |-> 0, media |-> 0]
    /\ xSheet' = NoBuffer
    /\ xWorkbook' = <<>>
    /\ err' = NoError
    /\ ret' = <<>>
    /\ emitted' = <<>>
    /\ UNCHANGED <<AppName, docVars, colVars>>

NextRerun ==
    \/ NextWrite
    \/ Rerun

SpecRerun == InitRerun /\ [][NextRerun]_vars

-----------------------------------------------------------------------------
(* SpecCell: a Write of a workbook of one sheet and one row, its last cell *)
(* set by one or two calls of the setters                                  *)

IntInputs == {0 - 7, 0, 42}

\* The cell c after one more call of a setter.
SetAgain(c) ==
    {SetBool(c, b) : b \in BOOLEAN}
    \cup {SetInt(c, n) : n \in IntInputs}
    \cup {SetStr(c, text) : text \in {"a", ""}}
    \cup {SetPicture(c, p) : p \in {Nil, Picture(<<".","p","n","g">>, BlobA)}}

CellSettings ==
    LET once == SetAgain(Blank)
        any  == {Blank} \cup once \cup UNION {SetAgain(c) : c \in once}
    IN  any \cup {WithXF(c, BoldXF) : c \in any}

\* The cells before the last one: none, or a string and a picture.
CellsBefore ==
    {<<>>, <<SetStr(Blank, "z"), SetPicture(Blank, Picture(<<".","p","n","g">>, BlobB))>>}

InitCell ==
    /\ \E before \in CellsBefore, c \in CellSettings :
          Sheets = <<SheetOne(before \o <<c>>)>>
    /\ sheetMap = [n \in {Sheets[i].Name : i \in 1..Len(Sheets)} |->
                     CHOOSE i \in 1..Len(Sheets) : Sheets[i].Name = n]
    /\ last = NoCall
    /\ addedNames = {Sheets[i].Name : i \in 1..Len(Sheets)}
    /\ accepted = [i \in 1..Len(Sheets) |-> <<>>]
    /\ ColIdle
    /\ AppName = ""
    /\ w = NewWriter
    /\ out = <<>>
    /\ pc = "Write"
    /\ at = [sheet |-> 0, row |-> 0, cell |-> 0, media |-> 0]
    /\ xSheet = NoBuffer
    /\ xWorkbook = <<>>
    /\ err = NoError
    /\ ret = <<>>
    /\ emitted = <<>>
    /\ RunIdle

SpecCell == InitCell /\ [][NextWrite]_vars

-----------------------------------------------------------------------------
(* SpecBuild: a sheet added by AddSheet, and AddRow, AddCell and            *)
(* SetColumnWidth calls on it                                               *)

MaxRows == 2
MaxRowCells == 2

\* A variant that gives every row the same number.
AddRowResultWithoutIncrement(sh) ==
    [sh EXCEPT !.Rows = Append(@, [Cells |-> <<>>, Height |-> 0,
                                    rowNumber |-> sh.nextRowNumber,
                                    nextColumnNumber |-> 1])]

\* Sheet.AddRow: the sheet with the new row.
AddRowResult(sh) ==
    [sh EXCEPT !.Rows = Append(@, [Cells |-> <<>>, Height |-> 0,
                                    rowNumber |-> sh.nextRowNumber,
                                    nextColumnNumber |-> 1]),
               !.nextRowNumber = @ + 1]

\* Row.AddCell: the row with the new cell.
AddCellResult(row) ==
    [row EXCEPT !.Cells = Append(@, NewCell(row.nextColumnNumber, row.rowNumber)),
                !.nextColumnNumber = @ + 1]

\* A variant that stores every width.
SetColumnWidthResultKeepingAll(columns, colNumber, width) ==
    IF colNumber <= 0 THEN columns
    ELSE Put(columns, colNumber, [Width |-> width])

\* Sheet.SetColumnWidth: the resulting Sheet.Columns.
SetColumnWidthResult(columns, colNumber, width) ==
    IF colNumber <= 0 THEN columns
    ELSE IF width <= 0
    THEN [k \in DOMAIN columns \ {colNumber} |-> columns[k]]
    ELSE Put(columns, colNumber, [Width |-> width])

\* The column numbers and the widths SetColumnWidth is called with.
WidthColumns == {0 - 1, 0, 1, 2}
Widths == {0 - 1, 0, 9, 12}

AddRow(s) ==
    /\ s \in 1..Len(Sheets)
    /\ Len(Sheets[s].Rows) < MaxRows
    /\ Sheets' = [Sheets EXCEPT ![s] = AddRowResult(@)]
    /\ last' = [NoCall EXCEPT !.op = "AddRow", !.sheet = s]
    /\ UNCHANGED <<sheetMap, addedNames, accepted>>

AddCell(s, r) ==
    /\ s \in 1..Len(Sheets)
    /\ r \in 1..Len(Sheets[s].Rows)
    /\ Len(Sheets[s].Rows[r].Cells) < MaxRowCells
    /\ Sheets' = [Sheets EXCEPT ![s].Rows[r] = AddCellResult(@)]
    /\ last' = [NoCall EXCEPT !.op = "AddCell", !.sheet = s, !.coords = <<r>>]
    /\ UNCHANGED <<sheetMap, addedNames, accepted>>

SetColumnWidth(s, colNumber, width) ==
    /\ s \in 1..Len(Sheets)
    /\ Sheets' = [Sheets EXCEPT ![s].Columns = SetColumnWidthResult(@, colNumber, width)]
    /\ last' = [NoCall EXCEPT !.op = "SetColumnWidth", !.sheet = s,
                              !.coords = <<colNumber, width>>]
    /\ UNCHANGED <<sheetMap, addedNames, accepted>>

InitBuild ==
    /\ DocInit
    /\ ColIdle
    /\ WriteIdle
    /\ seed \in Seeds
    /\ prev = <<>>

NextBuild ==
    \/ AddSheet(<<"S","1">>) /\ UNCHANGED <<colVars, writeVars, runVars>>
    \/ \E s \in 1..Len(Sheets) : AddRow(s) /\ UNCHANGED <<colVars, writeVars, runVars>>
    \/ \E s \in 1..Len(Sheets) : \E r \in 1..Len(Sheets[s].Rows) :
          AddCell(s, r) /\ UNCHANGED <<colVars, writeVars, runVars>>
    \/ \E s \in 1..Len(Sheets), colNumber \in WidthColumns, width \in Widths :
          SetColumnWidth(s, colNumber, width) /\ UNCHANGED <<colVars, writeVars, runVars>>

SpecBuild == InitBuild /\ [][NextBuild]_vars

-----------------------------------------------------------------------------
(* Properties of the document model *)

\* A cell reference in the form of section 4.5: a run of letters A-Z, then a
\* run of digits that is a positive number.
WellFormedCell(s) ==
    \E i \in 1..(Len(s) - 1) :
        /\ \A k \in 1..i : Occurs(s[k], UpperLetters)
        /\ \A k \in (i + 1)..Len(s) : Occurs(s[k], DigitChars)
        /\ DecimalValue(SubSeq(s, i + 1, Len(s)), 0) >= 1

WellFormedRange(ref) ==
    LET parts == Split(ref, <<>>) IN
    Len(parts) = 2 /\ WellFormedCell(parts[1]) /\ WellFormedCell(parts[2])

\* The ranges accepted on the sheet of the last call before that call.
AcceptedBefore ==
    IF last.err = NoError /\ ~last.panic
    THEN SubSeq(accepted[last.sheet], 1, Len(accepted[last.sheet]) - 1)
    ELSE accepted[last.sheet]

\* C1: every range stored in Sheet.MergeCells spans at least 2 cells and no
\* two stored ranges of a sheet share a cell.
C1_StoredRangesDisjoint ==
    \A s \in 1..Len(Sheets) :
        LET mc == Sheets[s].MergeCells IN
        /\ \A i \in 1..Len(mc) : Cardinality(RectCells(RectOf(mc[i].Ref))) >= 2
        /\ \A i, j \in 1..Len(mc) :
              i < j => ~Intersect(RectOf(mc[i].Ref), RectOf(mc[j].Ref))

\* C2: a Merge call with a well-formed range of at least 2 cells fails with
\* the overlap error if and only if its rectangle intersects the rectangle of
\* a range accepted earlier on the same sheet.
C2_OverlapIffIntersects ==
    (/\ last.op = "Merge"
     /\ WellFormedRange(last.ref)
     /\ Cardinality(RectCells(RectOf(last.ref))) >= 2)
    => (last.err = ErrOverlap
          <=> \E i \in 1..Len(AcceptedBefore) : Intersect(RectOf(last.ref), AcceptedBefore[i]))

\* The normalized reference of a rectangle: top-left corner, ":", bottom-right.
NormalizedRef(q) == CellCoordAsString(q.c1, q.r1) \o <<":">> \o CellCoordAsString(q.c2, q.r2)

LastStoredRef == Sheets[last.sheet].MergeCells[Len(Sheets[last.sheet].MergeCells)].Ref

\* C3: a successful Merge of a well-formed textual range stores the Ref that
\* MergeRange stores for the same two corners, the normalized reference.
C3_MergeStoresNormalizedRef ==
    /\ (last.op = "Merge" /\ last.err = NoError /\ WellFormedRange(last.ref))
         => LET a == CornerOf(Split(last.ref, <<>>)[1])
                b == CornerOf(Split(last.ref, <<>>)[2])
            IN  /\ LastStoredRef = NormalizedRef(RectOf(last.ref))
                /\ <<[Ref |-> LastStoredRef]>> =
                       MergeRangeResult(<<>>, a.col, a.row, b.col, b.row).MergeCells
    /\ (last.op = "MergeRange" /\ last.err = NoError /\ ~last.panic
          /\ \A k \in 1..4 : last.coords[k] >= 1)
         => LastStoredRef = NormalizedRef(RectOfCorners(last.coords[1], last.coords[2],
                                                        last.coords[3], last.coords[4]))

\* A valid sheet name: 1-31 characters, no leading or trailing single quote,
\* none of : \ / ? * [ ]
ValidSheetName(name) ==
    /\ Len(name) >= 1
    /\ Len(name) <= 31
    /\ name[1] # "'"
    /\ name[Len(name)] # "'"
    /\ \A i \in 1..Len(name) : name[i] \notin {":", "\\", "/", "?", "*", "[", "]"}

\* C4: an AddSheet call with a valid name succeeds if and only if no earlier
\* call with that name succeeded, a repeated name returns the duplicate-name
\* error, the names of Workbook.Sheets are pairwise distinct and sheetMap has
\* exactly one entry per sheet.
C4_AddSheetOncePerName ==
    /\ (last.op = "AddSheet" /\ ValidSheetName(last.name))
         => (last.err = NoError <=> ~last.earlier)
    /\ (last.op = "AddSheet" /\ last.earlier) => last.err = ErrDuplicate(last.name)
    /\ \A i, j \in 1..Len(Sheets) : i # j => Sheets[i].Name # Sheets[j].Name
    /\ Cardinality(DOMAIN sheetMap) = Len(Sheets)
    /\ \A i \in 1..Len(Sheets) :
          Sheets[i].Name \in DOMAIN sheetMap /\ sheetMap[Sheets[i].Name] = i

C4_Witness ==
    /\ last.op = "AddSheet"
    /\ ValidSheetName(last.name)
    /\ last.earlier
    /\ last.err = ErrDuplicate(last.name)
    /\ Len(Sheets) >= 2

\* C5: a call that returns a validation error leaves Workbook.Sheets (with
\* every Sheet.MergeCells) and sheetMap as they were before the call.
C5_FailedCallChangesNothing ==
    [][(last'.err # NoError /\ ~last'.panic) => (Sheets' = Sheets /\ sheetMap' = sheetMap)]_vars

C5_Witness ==
    /\ last.op = "Merge"
    /\ last.err = ErrOverlap
    /\ Len(Sheets[last.sheet].MergeCells) >= 1

\* The successor of a column name in the bijective base-26 sequence: the last
\* letter advances, Z wraps to A with a carry, and a carry out of the first
\* letter prepends an A.
RECURSIVE NextLetters(_)
NextLetters(s) ==
    IF s = <<>> THEN <<"A">>
    ELSE IF s[Len(s)] = "Z" THEN NextLetters(SubSeq(s, 1, Len(s) - 1)) \o <<"A">>
    ELSE SubSeq(s, 1, Len(s) - 1) \o <<UpperLetters[Position(s[Len(s)], UpperLetters) + 1]>>

\* C6: parsing ColumnNumberAsLetters(n) followed by a row number returns
\* column n; the letters are the bijective base-26 sequence (1 -> A, 26 -> Z,
\* 27 -> AA, 702 -> ZZ) and no two column numbers have the same letters.
C6_ColumnRoundTrip ==
    /\ colPc = "parsed" =>
          /\ colParsed.err = NoError
          /\ colParsed.col = colN
          /\ colParsed.row = colRow
    /\ colPc \in {"encoded", "parsed"} =>
          /\ colN = 1 => colText = <<"A">>
          /\ colN = 26 => colText = <<"Z">>
          /\ colN = 27 => colText = <<"A","A">>
          /\ colN = 702 => colText = <<"Z","Z">>
          /\ colN > 1 => colText = NextLetters(ColumnNumberAsLetters(colN - 1))
    /\ (colPc = "encoded" /\ colRow = 1) =>
          \A m \in 1..(colN - 1) : ColumnNumberAsLetters(m) # colText

C6_Witness ==
    /\ colPc = "parsed"
    /\ colN = 702
    /\ colParsed.col = 702
    /\ colText = <<"Z","Z">>

-----------------------------------------------------------------------------
(* Properties of Write *)

Emitted == {emitted[i] : i \in 1..Len(emitted)}

\* The cell of the document an emitted <c> element was written for.
SourceCell(e) == Sheets[e.sheet].Rows[e.row].Cells[e.cell]

DocumentCells ==
    UNION { UNION { {Sheets[i].Rows[j].Cells[k] : k \in 1..Len(Sheets[i].Rows[j].Cells)} :
                      j \in 1..Len(Sheets[i].Rows) } : i \in 1..Len(Sheets) }

\* The WriteBlob calls of a kind of part.
Calls(kind) == {j \in 1..Len(out) : out[j].body.kind = kind}

\* The WriteBlob calls of a kind of part that the sink accepted.
Written(kind) == {j \in Calls(kind) : out[j].err = NoError}

StringCells == {e \in Emitted : SourceCell(e).typ = CellTypeSharedString}

C8_StyleInterning ==
    /\ \A e1, e2 \in Emitted :
          /\ SourceCell(e1).XF = SourceCell(e2).XF => e1.c.s = e2.c.s
          /\ ( /\ SourceCell(e1).XF # SourceCell(e2).XF
               /\ SourceCell(e1).XF # DefaultXF
               /\ SourceCell(e2).XF # DefaultXF ) => e1.c.s # e2.c.s
    /\ \A e \in Emitted :
          IF SourceCell(e).XF = DefaultXF
          THEN e.c.s = <<>>
          ELSE \E i \in 1..Len(w.xfs) :
                  /\ w.xfs[i] = SourceCell(e).XF
                  /\ \A k \in 1..(i - 1) : w.xfs[k] # SourceCell(e).XF
                  /\ e.c.s = <<1 + (i - 1)>>
    /\ \A i \in 1..Len(w.xfs) :
          /\ w.xfs[i] # DefaultXF
          /\ \E c \in DocumentCells : c.XF = w.xfs[i]
    /\ \A i \in 1..Len(w.fonts) :
          /\ w.fonts[i] # DefaultFont
          /\ \E k \in 1..Len(w.xfs) : w.xfs[k].Font = w.fonts[i]
    /\ \A j \in Calls("styles") : \A e \in Emitted :
          e.c.s # <<>> =>
             LET xf == out[j].body.cellXfs[e.c.s[1] + 1]
             IN  /\ xf.horizontal = SourceCell(e).XF.Alignment.Horizontal
                 /\ xf.vertical = SourceCell(e).XF.Alignment.Vertical
                 /\ out[j].body.fonts[xf.fontId + 1] = FontElement(SourceCell(e).XF.Font)

\* Two cells have the same non-default style and the styles part is written.
C8_Witness ==
    /\ \E e1, e2 \in Emitted :
          /\ e1 # e2
          /\ SourceCell(e1).XF = SourceCell(e2).XF
          /\ e1.c.s = <<1>>
          /\ e2.c.s = <<1>>
    /\ Written("styles") # {}

PictureCells == {e \in Emitted : SourceCell(e).typ = cellTypePicture}

Payload(e) == SourceCell(e).picture[1].Blob

MediaRecords(blob) == {i \in 1..Len(w.media) : w.media[i].Blob = blob}

MediaBlobs(blob) == {j \in Written("blob") : out[j].body.bytes = blob}

\* writeMedia has written the blob of every media record.
MediaWritten == Written("richValueRels") # {}

\* C9 as stated: two picture cells with the same payload have one media
\* record and, once the media are written, one media blob, and the same vm.
C9_MediaDedup ==
    \A e1, e2 \in PictureCells :
       Payload(e1) = Payload(e2) =>
          /\ e1.c.vm = e2.c.vm
          /\ Cardinality(MediaRecords(Payload(e1))) = 1
          /\ MediaWritten => Cardinality(MediaBlobs(Payload(e1))) = 1

\* The extension of a picture, lower-cased and with .jpg read as .jpeg.
NormalizedExt(e) ==
    LET l == ToLower(SourceCell(e).picture[1].Extension)
    IN  IF l = <<".","j","p","g">> THEN <<".","j","p","e","g">> ELSE l

\* C9, amended: two picture cells with the same payload and the same
\* normalized extension have one media record between them and, once the
\* media are written, one media blob; both have the vm of that record, its
\* internal id plus 1.
C9_MediaDedupSameExt ==
    \A e1, e2 \in PictureCells :
       (Payload(e1) = Payload(e2) /\ NormalizedExt(e1) = NormalizedExt(e2)) =>
          \E i \in MediaRecords(Payload(e1)) :
             /\ w.media[i].IId = i - 1
             /\ e1.c.vm = <<w.media[i].IId + 1>>
             /\ e2.c.vm = e1.c.vm
             /\ \A k \in MediaRecords(Payload(e1)) :
                   k # i => \A e \in {e1, e2} : e.c.vm # <<w.media[k].IId + 1>>
             /\ Cardinality({k \in 1..Len(w.media) : w.media[k].Name = w.media[i].Name}) = 1
             /\ MediaWritten =>
                   Cardinality({j \in Written("blob") :
                                   out[j].path = MediaPath(w.media[i].Name)}) = 1

\* Two picture cells with the same payload, their extensions spelled
\* differently but the same once normalized; the media are written.
C9_Witness ==
    /\ \E e1, e2 \in PictureCells :
          /\ e1 # e2
          /\ Payload(e1) = Payload(e2)
          /\ SourceCell(e1).picture[1].Extension # SourceCell(e2).picture[1].Extension
          /\ NormalizedExt(e1) = NormalizedExt(e2)
    /\ MediaWritten
    /\ Len(w.media) = 1

\* The errors of writeSheet that do not come from the sink.
ResourceErrors ==
    {ErrMissingPicture, ErrEmptyPicture, ErrUnsupportedExt(<<".","g","i","f">>)}

\* What C10 says of every step: after an error Write is about to return or
\* has returned, what it returns is that error, and the call that failed is
\* the last WriteBlob call.
ErrorReturned ==
    /\ err # NoError => pc \in {"return", "done"}
    /\ ret # <<>> => ret = <<err>>
    /\ \A j \in 1..Len(out) :
          out[j].err # NoError => (j = Len(out) /\ err = out[j].err)
    /\ (err # NoError /\ \A j \in 1..Len(out) : out[j].err = NoError) =>
          err \in ResourceErrors

\* C10 as stated: Write returns the error of the step that failed and calls
\* WriteBlob no more; no relationship part and no [Content_Types].xml is
\* written in a run that fails.
C10_ErrorAborts ==
    /\ ErrorReturned
    /\ err # NoError => (Written("rels") = {} /\ Written("types") = {})

\* C10, amended: Write returns the error of the step that failed and calls
\* WriteBlob no more; [Content_Types].xml is not written in a run that
\* fails, and every relationship part written in such a run was written
\* before the step that failed.
C10_ErrorAbortsNoContentTypes ==
    /\ ErrorReturned
    /\ err # NoError =>
          /\ Written("types") = {}
          /\ \A j \in Written("rels") : j < Len(out)

\* Write failed and returned the error of the sink; a relationship part had
\* been written before.
C10_Witness ==
    /\ pc = "done"
    /\ ret = <<"write failed">>
    /\ Written("rels") # {}
    /\ out[Len(out)].err = "write failed"

\* A picture-typed cell that writeSheet cannot resolve: no payload, a
\* payload of no bytes, or an extension that is neither .png nor .jpeg once
\* lower-cased and with .jpg read as .jpeg.
UnresolvablePicture(c) ==
    /\ c.typ = cellTypePicture
    /\ \/ c.picture = Nil
       \/ /\ c.picture # Nil
          /\ \/ Len(c.picture[1].Blob) = 0
             \/ LET l == ToLower(c.picture[1].Extension)
                    n == IF l = <<".","j","p","g">> THEN <<".","j","p","e","g">> ELSE l
                IN  n \notin {<<".","p","n","g">>, <<".","j","p","e","g">>}

\* The sink accepted every blob it was given.
SinkNeverFailed == \A j \in 1..Len(out) : out[j].err = NoError

\* C11: when Write has returned, it has returned an error if the workbook
\* has a picture-typed cell with no payload, with no bytes or with an
\* unsupported extension, and that error is a resource error when the sink
\* did not fail; it has returned no error if the workbook has no such cell
\* and the sink did not fail.
C11_UnresolvablePictureFails ==
    ret # <<>> =>
       /\ (\E c \in DocumentCells : UnresolvablePicture(c)) =>
             /\ ret[1] # NoError
             /\ SinkNeverFailed => ret[1] \in ResourceErrors
       /\ ((\A c \in DocumentCells : ~UnresolvablePicture(c)) /\ SinkNeverFailed) =>
             ret = <<NoError>>

\* Write has returned the error of a picture with no bytes, met after a
\* picture that was resolved.
C11_Witness ==
    /\ ret = <<ErrEmptyPicture>>
    /\ SinkNeverFailed
    /\ PictureCells # {}
    /\ \E c \in DocumentCells :
          c.typ = cellTypePicture /\ c.picture # Nil /\ Len(c.picture[1].Blob) = 0

\* Write has returned no error for a workbook with pictures, all resolved.
C11_WitnessSuccess ==
    /\ ret = <<NoError>>
    /\ \E c \in DocumentCells : c.typ = cellTypePicture
    /\ \A c \in DocumentCells : ~UnresolvablePicture(c)

\* The blobs of the run before this one.
FirstRun == prev[1]

\* The core-properties parts of the two runs carry the same time.
SameTimestamp ==
    \A j \in 1..Len(out) : \A k \in 1..Len(FirstRun) :
       (out[j].body.kind = "core" /\ FirstRun[k].body.kind = "core") =>
          out[j].body.created = FirstRun[k].body.created

\* C12: a second Write of the same workbook to a new Writer, whatever the
\* order of its map iterations, gives the sink the blobs of the first Write
\* in the same order: the same paths, and the same contents when the time
\* in the core properties is the same; when it returns nil it has written
\* as many blobs as the first.
C12_SameBlobsInSameOrder ==
    prev # <<>> =>
       /\ Len(out) <= Len(FirstRun)
       /\ \A j \in 1..Len(out) :
             /\ out[j].path = FirstRun[j].path
             /\ SameTimestamp => out[j].body = FirstRun[j].body
       /\ ret = <<NoError>> => Len(out) = Len(FirstRun)

\* The second Write has returned nil, its maps were iterated in descending
\* order, the time is that of the first Write, and a relationship part with
\* more than one relationship and a worksheet with two columns were written.
C12_Witness ==
    /\ prev # <<>>
    /\ seed = 1
    /\ ret = <<NoError>>
    /\ SameTimestamp
    /\ \E j \in Written("rels") : Len(out[j].body.Relationships) > 2
    /\ \E j \in Written("worksheet") : Len(out[j].body.cols) = 2
    /\ \E j \in Written("types") : Len(out[j].body.Default) > 2

\* The paths of the blobs the sink accepted.
WrittenPaths == {out[j].path : j \in {k \in 1..Len(out) : out[k].err = NoError}}

\* The relationships of the relationship part written at a path.
RelationshipsAt(path) ==
    UNION { {out[j].body.Relationships[i] : i \in 1..Len(out[j].body.Relationships)} :
              j \in {k \in Written("rels") : out[k].path = path} }

\* The part names with an Override in [Content_Types].xml, and the
\* extensions with a Default.
Overrides ==
    UNION { {out[j].body.Override[i].PartName : i \in 1..Len(out[j].body.Override)} :
              j \in Written("types") }

Defaults ==
    UNION { {out[j].body.Default[i].Extension : i \in 1..Len(out[j].body.Default)} :
              j \in Written("types") }

\* A part of the workbook is written, has a relationship in workbook.xml.rels
\* and an Override in [Content_Types].xml, all three or none.
PartPresent(part) ==
    /\ part.abspath \in WrittenPaths
    /\ \E r \in RelationshipsAt(PathWorkbookRels) :
          r.Type = part.Type /\ r.Target = part.relpath
    /\ part.abspath \in Overrides

PartAbsent(part) ==
    /\ part.abspath \notin WrittenPaths
    /\ \A r \in RelationshipsAt(PathWorkbookRels) :
          r.Type # part.Type /\ r.Target # part.relpath
    /\ part.abspath \notin Overrides

HasStringCell  == \E c \in DocumentCells : c.typ = CellTypeSharedString
HasStyledCell  == \E c \in DocumentCells : ~XFEmpty(c.XF)
HasPictureCell == \E c \in DocumentCells : c.typ = cellTypePicture

RichDataParts == {PartRichValueRel, PartRichValueStructure, PartRichValueData, PartMetadata}

\* C13: when Write has returned nil, the shared-strings part is present if
\* the workbook has a string cell and absent if not, the styles part is
\* present if a cell has a non-default style and absent if not, and if the
\* workbook has a picture cell the four rich-data parts are present, the
\* rich-data relationship part and a media blob are written and png or jpeg
\* has a Default content type, and none of this if it has none.
C13_OptionalPartsIffNeeded ==
    ret = <<NoError>> =>
       /\ IF HasStringCell THEN PartPresent(PartSharedStrings)
                           ELSE PartAbsent(PartSharedStrings)
       /\ IF HasStyledCell THEN PartPresent(PartStyles) ELSE PartAbsent(PartStyles)
       /\ IF HasPictureCell
          THEN /\ \A p \in RichDataParts : PartPresent(p)
               /\ PathRichDataRels \in WrittenPaths
               /\ RelationshipsAt(PathRichDataRels) # {}
               /\ \A r \in RelationshipsAt(PathRichDataRels) :
                     r.Type = TypeImage /\
                     \E j \in Written("blob") : out[j].path = <<"/","x","l">> \o Tail(Tail(r.Target))
               /\ Written("blob") # {}
               /\ Defaults \cap {<<"p","n","g">>, <<"j","p","e","g">>} # {}
          ELSE /\ \A p \in RichDataParts : PartAbsent(p)
               /\ PathRichDataRels \notin WrittenPaths
               /\ Written("blob") = {}
               /\ Defaults \cap {<<"p","n","g">>, <<"j","p","e","g">>} = {}

\* Write has returned nil for a workbook with a picture cell and a styled
\* cell and no string cell.
C13_Witness ==
    /\ ret = <<NoError>>
    /\ HasPictureCell
    /\ HasStyledCell
    /\ ~HasStringCell
    /\ PartAbsent(PartSharedStrings)
    /\ PartPresent(PartStyles)

\* The decimal text of the integers of IntInputs.
IntTexts == {<<0 - 7, "-7">>, <<0, "0">>, <<42, "42">>}

\* The <c> element the Writer, as it is now, writes for a cell.
ElementOf(c) == EmitCell(w, c).c

\* C14: every <c> element written has the type tag and the value of the
\* kind of its cell, and so has the element the Writer would write next for
\* any cell of the workbook after one more call of a setter: a boolean has
\* t="b" and the value 1 or 0, an integer t="n" and its decimal text, a
\* string t="s" and the 0-based position of its text in the shared strings,
\* a picture t="e", the value #VALUE! and a vm of 1 or more, and a cell that
\* was never set has no t, no vm and no value.
C14_TypeTagAndValue ==
    /\ \A e \in Emitted :
          LET c == SourceCell(e) IN
          /\ c.typ = CellTypeBool =>
                e.c.t = <<"b">> /\ e.c.v = <<c.v>> /\ c.v \in {"0", "1"} /\ e.c.vm = <<>>
          /\ c.typ = CellTypeNumber =>
                e.c.t = <<"n">> /\ e.c.v = <<c.v>> /\ e.c.vm = <<>>
                /\ \E p \in IntTexts : c.v = p[2]
          /\ c.typ = CellTypeSharedString =>
                /\ e.c.t = <<"s">>
                /\ e.c.vm = <<>>
                /\ \E i \in 1..Len(w.sharedStrings) :
                      w.sharedStrings[i] = c.v /\ e.c.v = <<Str(Itoa(i - 1))>>
          /\ c.typ = cellTypePicture =>
                /\ e.c.t = <<"e">>
                /\ e.c.v = <<"#VALUE!">>
                /\ e.c.vm # <<>>
                /\ e.c.vm[1] \in 1..Len(w.media)
          /\ c.typ = CellTypeUnset =>
                e.c.t = <<>> /\ e.c.v = <<>> /\ e.c.vm = <<>>
    /\ \A c \in DocumentCells :
          /\ ElementOf(SetBool(c, TRUE)).t = <<"b">>
          /\ ElementOf(SetBool(c, TRUE)).v = <<"1">>
          /\ ElementOf(SetBool(c, FALSE)).t = <<"b">>
          /\ ElementOf(SetBool(c, FALSE)).v = <<"0">>
          /\ \A p \in IntTexts :
                /\ ElementOf(SetInt(c, p[1])).t = <<"n">>
                /\ ElementOf(SetInt(c, p[1])).v = <<p[2]>>
          /\ ElementOf(SetStr(c, "a")).t = <<"s">>
          /\ \E i \in 1..Len(EmitCell(w, SetStr(c, "a")).w.sharedStrings) :
                /\ EmitCell(w, SetStr(c, "a")).w.sharedStrings[i] = "a"
                /\ ElementOf(SetStr(c, "a")).v = <<Str(Itoa(i - 1))>>

\* A cell set to a picture and then to false is written as a boolean, in a
\* row that has a string and a picture before it.
C14_Witness ==
    \E e \in Emitted :
       LET c == SourceCell(e) IN
       /\ c.typ = CellTypeBool
       /\ c.v = "0"
       /\ c.picture # Nil
       /\ e.c.t = <<"b">>
       /\ Len(w.sharedStrings) = 1
       /\ Len(w.media) = 1

\* A negative integer is written.
C14_WitnessNegative ==
    \E e \in Emitted : SourceCell(e).typ = CellTypeNumber /\ e.c.v = <<"-7">>

\* A string that is the second shared string is written.
C14_WitnessSecondString ==
    \E e \in Emitted : SourceCell(e).typ = CellTypeSharedString /\ e.c.v = <<"1">>

\* A picture that is the second media record is written.
C14_WitnessSecondPicture ==
    \E e \in Emitted : SourceCell(e).typ = cellTypePicture /\ e.c.vm = <<2>>

\* A cell that has a style and was never set is written.
C14_WitnessUnset ==
    \E e \in Emitted : SourceCell(e).typ = CellTypeUnset /\ e.c.s = <<1>>

\* C15: no step of Write changes the workbook: its sheets with their rows,
\* cells, values, styles, pictures, column widths and merge ranges, its
\* sheet map and its application name are after the step what they were
\* before it, whether the step fails or not.
C15_WriteLeavesDocument ==
    [][Sheets' = Sheets /\ sheetMap' = sheetMap /\ AppName' = AppName]_vars

\* Write has returned an error after it had taken pointers to a style and
\* to the bytes of a picture, and the cells still have that style and those
\* bytes.
C15_Witness ==
    /\ pc = "done"
    /\ ret # <<NoError>>
    /\ Len(w.xfs) > 0
    /\ Len(w.media) > 0
    /\ \E c \in DocumentCells : c.XF = w.xfs[1]
    /\ \E c \in DocumentCells : c.picture # Nil /\ c.picture[1].Blob = w.media[1].Blob

\* C16: every reference stored in Sheet.MergeCells is one parseMergeCellRef
\* parses without error, so that the overlap scan of validateMergeRange
\* skips no stored range.
C16_StoredRefsParse ==
    \A s \in 1..Len(Sheets) : \A i \in 1..Len(Sheets[s].MergeCells) :
       parseMergeCellRef(Sheets[s].MergeCells[i].Ref).err = NoError

\* WriteBlob has been called for the worksheet of every sheet.
LastWorksheetWritten == Cardinality(Calls("worksheet")) = Len(Sheets)

\* The shared-strings part and the styles part come after every worksheet.
IndexPartsAfterWorksheets ==
    \A j \in Calls("sst") \cup Calls("styles") :
       /\ Cardinality(Written("worksheet")) = Len(Sheets)
       /\ \A k \in Calls("worksheet") : k < j

\* C17: the shared-strings part and the styles part are written only when
\* the worksheet of every sheet has been written, and no step taken after
\* the last worksheet was written changes the shared strings, the styles or
\* the media records of the Writer.
C17_IndexPartsAfterWorksheets ==
    [][ /\ IndexPartsAfterWorksheets'
        /\ LastWorksheetWritten =>
              /\ w'.sharedStrings = w.sharedStrings
              /\ w'.sharedStringMap = w.sharedStringMap
              /\ w'.xfs = w.xfs
              /\ w'.media = w.media
              /\ w'.mediaMap = w.mediaMap ]_vars

\* The shared strings and the styles are written, after two worksheets; the
\* Writer has strings, styles, fonts and media records.
C17_Witness ==
    /\ Cardinality(Written("worksheet")) = 2
    /\ Written("sst") # {}
    /\ Written("styles") # {}
    /\ IndexPartsAfterWorksheets
    /\ Len(w.sharedStrings) > 0
    /\ Len(w.fonts) > 0
    /\ Len(w.media) > 0

\* WriteBlob has been called for the relationship part at a path.
RelsCalled(path) == \E j \in Calls("rels") : out[j].path = path

\* [Content_Types].xml is the last blob and, when the sink accepted it, has
\* an Override for every part before it that is not a relationship part and
\* not a media blob.
ContentTypesLast ==
    \A j \in Calls("types") :
       /\ j = Len(out)
       /\ out[j].path = PathContentTypes
       /\ out[j].err = NoError =>
             \A k \in 1..(j - 1) :
                out[k].body.kind \notin {"rels", "blob"} =>
                   \E i \in 1..Len(out[j].body.Override) :
                      out[j].body.Override[i].PartName = out[k].path

\* C18: a step taken after the relationship part of a namespace was written
\* leaves the relationship map of that namespace as it is, and a step taken
\* after [Content_Types].xml was written leaves both content-type maps as
\* they are; [Content_Types].xml is the last blob written and has an
\* Override for every XML part written before it that is not a relationship
\* part.
C18_IndexPartsAreFinal ==
    [][ /\ RelsCalled(PathRichDataRels) => w'.RichDataRels = w.RichDataRels
        /\ RelsCalled(PathWorkbookRels) => w'.WorkbookRels = w.WorkbookRels
        /\ RelsCalled(PathGlobalRels) => w'.GlobalRels = w.GlobalRels
        /\ Calls("types") # {} =>
              /\ w'.DefaultContentTypes = w.DefaultContentTypes
              /\ w'.PartContentTypes = w.PartContentTypes
        /\ ContentTypesLast' ]_vars

\* Write has returned after the three relationship parts and
\* [Content_Types].xml, which has the Override of two worksheets and of the
\* shared strings, the styles and the metadata.
C18_Witness ==
    /\ pc = "done"
    /\ RelsCalled(PathRichDataRels)
    /\ RelsCalled(PathWorkbookRels)
    /\ RelsCalled(PathGlobalRels)
    /\ Written("types") # {}
    /\ ContentTypesLast
    /\ Cardinality(Written("worksheet")) = 2
    /\ {PartSharedStrings.abspath, PartStyles.abspath, PartMetadata.abspath} \subseteq Overrides

\* The relationship ids of the numbers 1..n.
RIds(n) == {RId(i) : i \in 1..n}

\* Every id a counter has returned was returned once: the ids 1..n of a
\* counter at n are the keys of as many relationships.
IdsUsedOnce ==
    /\ DOMAIN w.GlobalRels = RIds(w.lastGlobalId)
    /\ Cardinality(DOMAIN w.GlobalRels) = w.lastGlobalId
    /\ DOMAIN w.WorkbookRels = RIds(w.lastWorkbookId)
    /\ Cardinality(DOMAIN w.WorkbookRels) = w.lastWorkbookId
    /\ \A i \in 1..Len(xWorkbook) :
          xWorkbook[i].sheetId = i /\ xWorkbook[i].rid = RId(i)
    /\ Len(w.media) = w.lastRichDataId
    /\ \A i \in 1..Len(w.media) : w.media[i].RId = RId(i)
    /\ DOMAIN w.RichDataRels = RIds(Cardinality(Written("blob")))
    /\ Cardinality(DOMAIN w.RichDataRels) = Cardinality(Written("blob"))

\* A relationship map after a step has the entries it had before it.
Kept(m1, m2) == \A k \in DOMAIN m1 : k \in DOMAIN m2 /\ m2[k] = m1[k]

\* C19: a step of Write adds 1 to at most one of the three counters and
\* nothing to the others, the ids a counter has returned are 1, 2, 3, ... up
\* to its value, each the key of one relationship or the id of one media
\* record, and no step changes or removes a relationship that was entered.
C19_CountersIndependent ==
    [][ /\ w'.lastGlobalId - w.lastGlobalId \in {0, 1}
        /\ w'.lastWorkbookId - w.lastWorkbookId \in {0, 1}
        /\ w'.lastRichDataId - w.lastRichDataId \in {0, 1}
        /\ (w'.lastGlobalId + w'.lastWorkbookId + w'.lastRichDataId)
              - (w.lastGlobalId + w.lastWorkbookId + w.lastRichDataId) \in {0, 1}
        /\ Kept(w.GlobalRels, w'.GlobalRels)
        /\ Kept(w.WorkbookRels, w'.WorkbookRels)
        /\ Kept(w.RichDataRels, w'.RichDataRels)
        /\ IdsUsedOnce' ]_vars

\* Write has returned nil; the global counter is at 3, the workbook counter
\* at 7 (two worksheets, four rich-data parts and the styles) and the
\* rich-data counter at 2.
C19_Witness ==
    /\ ret = <<NoError>>
    /\ w.lastGlobalId = 3
    /\ w.lastWorkbookId = 7
    /\ w.lastRichDataId = 2
    /\ IdsUsedOnce

\* The name under which the picture of an emitted cell is kept.
NameOf(e) == MediaName(Payload(e), NormalizedExt(e))

\* C20: in every state of Write the media record at position i, counted
\* from 0, has the internal id i and the relationship id rId(i+1), the
\* rich-data counter is the number of media records, the name map has one
\* entry for each record, the record itself, and nothing else, and every
\* picture cell written has as vm the internal id of the record of its
\* picture plus 1.
C20_MediaRecordsConsistent ==
    /\ \A i \in 1..Len(w.media) :
          /\ w.media[i].IId = i - 1
          /\ w.media[i].RId = RId((i - 1) + 1)
          /\ w.media[i].Name \in DOMAIN w.mediaMap
          /\ w.mediaMap[w.media[i].Name] = w.media[i]
    /\ w.lastRichDataId = Len(w.media)
    /\ DOMAIN w.mediaMap = {w.media[i].Name : i \in 1..Len(w.media)}
    /\ Cardinality(DOMAIN w.mediaMap) = Len(w.media)
    /\ \A e \in PictureCells :
          /\ NameOf(e) \in DOMAIN w.mediaMap
          /\ w.mediaMap[NameOf(e)].Blob = Payload(e)
          /\ e.c.vm = <<w.mediaMap[NameOf(e)].IId + 1>>
    /\ \A i \in 1..Len(w.media) :
          \/ \E e \in PictureCells : NameOf(e) = w.media[i].Name
          \/ i = Len(w.media) /\ Len(w.media[i].Blob) = 0

\* Two picture cells with different pictures are written, the first with
\* vm 1 and the second with vm 2.
C20_Witness ==
    /\ Len(w.media) = 2
    /\ \E e1, e2 \in PictureCells :
          /\ e1 # e2
          /\ NameOf(e1) # NameOf(e2)
          /\ e1.c.vm = <<1>>
          /\ e2.c.vm = <<2>>

\* A record is kept for a picture with no bytes, for which Write fails.
C20_WitnessEmpty ==
    /\ Len(w.media) = 2
    /\ Len(w.media[2].Blob) = 0
    /\ ret = <<ErrEmptyPicture>>

\* The internal ids 0, 1, ... of n media records, in order.
InternalIds(n) == [i \in 1..n |-> i - 1]

\* C21: the futureMetadata and valueMetadata tables of the metadata part,
\* the rich-value data part and the rich-value relationship part have one
\* entry for each media record, in the order of the records: entry k,
\* counted from 0, has the internal id k, which is that of record k, and
\* the relationship id of record k, under which the relationship part of
\* the rich data has the blob of record k as target.
C21_RichDataTablesFollowMedia ==
    /\ \A j \in Calls("metadata") :
          /\ out[j].body.futureCount = Len(w.media)
          /\ out[j].body.futureMetadata = InternalIds(Len(w.media))
          /\ out[j].body.valueCount = Len(w.media)
          /\ out[j].body.valueMetadata = InternalIds(Len(w.media))
    /\ \A j \in Calls("rvData") :
          /\ out[j].body.count = Len(w.media)
          /\ out[j].body.rv = InternalIds(Len(w.media))
          /\ \A k \in 1..Len(w.media) : out[j].body.rv[k] = w.media[k].IId
    /\ \A j \in Calls("richValueRels") :
          /\ Len(out[j].body.rel) = Len(w.media)
          /\ \A k \in 1..Len(w.media) :
                /\ out[j].body.rel[k] = w.media[k].RId
                /\ out[j].body.rel[k] \in DOMAIN w.RichDataRels
                /\ w.RichDataRels[out[j].body.rel[k]].Target = MediaTarget(w.media[k].Name)
    /\ (Calls("metadata") \cup Calls("rvData") \cup Calls("richValueRels")) # {} =>
          Len(w.media) > 0

\* The metadata part is written for two media records.
C21_Witness ==
    /\ Written("metadata") # {}
    /\ Written("rvData") # {}
    /\ Written("richValueRels") # {}
    /\ Len(w.media) = 2
    /\ \A j \in Written("metadata") : out[j].body.valueMetadata = <<0, 1>>

\* The distinct elements of a list in the order in which each comes first.
RECURSIVE FirstSeen(_)
FirstSeen(list) ==
    IF list = <<>> THEN <<>>
    ELSE LET rest == FirstSeen(SubSeq(list, 1, Len(list) - 1))
             x    == list[Len(list)]
         IN  IF \E i \in 1..Len(rest) : rest[i] = x THEN rest ELSE Append(rest, x)

\* The styles of the cells written that are not the default one, and the
\* fonts of a list of styles that are not the default one, in order.
StylesSeen ==
    LET NotDefault(e) == ~XFEmpty(SourceCell(e).XF)
        seen == SelectSeq(emitted, NotDefault)
    IN  [i \in 1..Len(seen) |-> SourceCell(seen[i]).XF]

FontsOf(xfs) ==
    LET NotDefault(xf) == ~FontIsDefault(xf.Font)
        seen == SelectSeq(xfs, NotDefault)
    IN  [i \in 1..Len(seen) |-> seen[i].Font]

C22_WitnessTwoFonts ==
    /\ Written("styles") # {}
    /\ Len(w.fonts) = 2
    /\ \E j \in Written("styles") : \E i \in 2..Len(out[j].body.cellXfs) :
          out[j].body.cellXfs[i].fontId = 2

C22_WitnessDefaultFont ==
    \E j \in Written("styles") : \E i \in 2..Len(out[j].body.cellXfs) :
       out[j].body.cellXfs[i].fontId = 0

\* Each key of a list of keys is less than the next, as Go compares strings:
\* by the first byte in which they differ, a proper prefix coming first.
Ascending(keys) ==
    \A i \in 1..(Len(keys) - 1) :
       \/ /\ Len(keys[i]) < Len(keys[i + 1])
          /\ SubSeq(keys[i + 1], 1, Len(keys[i])) = keys[i]
       \/ \E n \in 1..Len(keys[i]) :
             /\ n <= Len(keys[i + 1])
             /\ SubSeq(keys[i], 1, n - 1) = SubSeq(keys[i + 1], 1, n - 1)
             /\ AsciiCode[keys[i][n]] < AsciiCode[keys[i + 1][n]]

\* C23: the relationships of every relationship part are written in
\* ascending order of their ids, and the Default and the Override entries
\* of [Content_Types].xml in ascending order of their extensions and of
\* their part names, whatever the order of registration and of the map
\* iteration was.
C23_SortedKeyOrder ==
    /\ \A j \in Calls("rels") :
          Ascending([i \in 1..Len(out[j].body.Relationships) |->
                        out[j].body.Relationships[i].Id])
    /\ \A j \in Calls("types") :
          /\ Ascending([i \in 1..Len(out[j].body.Default) |->
                           out[j].body.Default[i].Extension])
          /\ Ascending([i \in 1..Len(out[j].body.Override) |->
                           out[j].body.Override[i].PartName])

\* [Content_Types].xml is written by a run that iterates its maps in
\* descending order: the Default entries are jpeg, png, rels, xml, of which
\* xml and rels were registered first, and the Override of the core
\* properties, registered after the workbook and the worksheets, is before
\* theirs.
C23_Witness ==
    /\ seed = 1
    /\ \E j \in Written("types") :
          /\ [i \in 1..Len(out[j].body.Default) |-> out[j].body.Default[i].Extension]
                = << <<"j","p","e","g">>, <<"p","n","g">>, <<"r","e","l","s">>, <<"x","m","l">> >>
          /\ out[j].body.Override[1].PartName = PartApp.abspath
          /\ out[j].body.Override[2].PartName = PartCore.abspath
          /\ \E i \in 3..Len(out[j].body.Override) :
                out[j].body.Override[i].PartName = PartWorkbook.abspath
    /\ \E j \in Written("rels") : Len(out[j].body.Relationships) > 6

\* C24: the i-th row of a sheet has the row number i and the j-th cell of
\* a row the column number j, both counted from 1; the coordinate of a cell
\* is the letters of its column number followed by its row number; a row or
\* a cell that exists keeps its number and its coordinate in every later
\* AddRow and AddCell call.
C24_RowsAndCellsNumbered ==
    [][ /\ \A s \in 1..Len(Sheets') : \A i \in 1..Len(Sheets'[s].Rows) :
              LET row == Sheets'[s].Rows[i] IN
              /\ row.rowNumber = i
              /\ \A j \in 1..Len(row.Cells) :
                    /\ row.Cells[j].columnNumber = j
                    /\ row.Cells[j].coord = <<UpperLetters[j]>> \o Itoa(i)
                    /\ row.Cells[j].coord = ColumnNumberAsLetters(j) \o Itoa(i)
        /\ \A s \in 1..Len(Sheets) : \A i \in 1..Len(Sheets[s].Rows) :
              /\ i <= Len(Sheets'[s].Rows)
              /\ Sheets'[s].Rows[i].rowNumber = Sheets[s].Rows[i].rowNumber
              /\ \A j \in 1..Len(Sheets[s].Rows[i].Cells) :
                    /\ j <= Len(Sheets'[s].Rows[i].Cells)
                    /\ Sheets'[s].Rows[i].Cells[j] = Sheets[s].Rows[i].Cells[j] ]_vars

\* A cell is added to the first row after the second row was added and
\* filled: the first row has the cells A1 and B1, the second A2 and B2.
C24_Witness ==
    /\ last.op = "AddCell"
    /\ last.coords = <<1>>
    /\ Len(Sheets) = 1
    /\ Len(Sheets[1].Rows) = 2
    /\ Len(Sheets[1].Rows[1].Cells) = 2
    /\ Len(Sheets[1].Rows[2].Cells) = 2
    /\ Sheets[1].Rows[1].Cells[2].coord = <<"B", "1">>
    /\ Sheets[1].Rows[2].Cells[2].coord = <<"B", "2">>
    /\ Sheets[1].Rows[2].Cells[2].columnNumber = 2

\* The entries of two column maps other than that of one column are the same.
SameElsewhere(before, after, colNumber) ==
    /\ DOMAIN after \ {colNumber} = DOMAIN before \ {colNumber}
    /\ \A k \in DOMAIN before \ {colNumber} : after[k] = before[k]

\* Every stored column has a number of 1 or more and a width above 0, and
\* the <cols> element has one <col> for each, in ascending order of the
\* column numbers, with its width.
ColumnsStored(sh) ==
    /\ \A k \in DOMAIN sh.Columns : k >= 1 /\ sh.Columns[k].Width > 0
    /\ Len(ColsOf(sh)) = Cardinality(DOMAIN sh.Columns)
    /\ \A i \in 1..Len(ColsOf(sh)) :
          /\ ColsOf(sh)[i].min \in DOMAIN sh.Columns
          /\ ColsOf(sh)[i].max = ColsOf(sh)[i].min
          /\ ColsOf(sh)[i].width = <<sh.Columns[ColsOf(sh)[i].min].Width>>
          /\ i > 1 => ColsOf(sh)[i - 1].min < ColsOf(sh)[i].min

C25_WitnessTwoColumns ==
    /\ seed = 1
    /\ Len(Sheets) = 1
    /\ DOMAIN Sheets[1].Columns = {1, 2}
    /\ ColsOf(Sheets[1])[1].min = 1

\* A cell as AddCell made it, with the place and the style of c.
NeverSet(c) == [c EXCEPT !.typ = CellTypeUnset, !.v = "", !.picture = Nil]

\* For each call of a setter, the cell c after the call and the cell after
\* the same call had c never been set.
LastCalls(c) ==
    {<<SetBool(c, b), SetBool(NeverSet(c), b)>> : b \in BOOLEAN}
    \cup {<<SetInt(c, n), SetInt(NeverSet(c), n)>> : n \in IntInputs}
    \cup {<<SetFloat(c, g), SetFloat(NeverSet(c), g)>> : g \in {"1.5", "1e+21"}}
    \cup {<<SetStr(c, text), SetStr(NeverSet(c), text)>> : text \in {"a", ""}}
    \cup {<<SetPicture(c, p), SetPicture(NeverSet(c), p)>> :
             p \in {Nil, Picture(<<".","p","n","g">>, BlobA)}}

\* C26: what the Writer writes for a cell and what it enters in its tables
\* depend on the last call of a setter only: for any cell of the workbook,
\* whatever was set before, and any further call, the <c> element, the
\* error and the Writer are those of the same call on a cell never set; a
\* picture left by an earlier call is in no media record and a text left
\* by an earlier call is no shared string and no value.
C26_LastCallOnly ==
    /\ \A c \in DocumentCells : \A p \in LastCalls(c) :
          /\ EmitCell(w, p[1]).c = EmitCell(w, p[2]).c
          /\ EmitCell(w, p[1]).err = EmitCell(w, p[2]).err
          /\ EmitCell(w, p[1]).w = EmitCell(w, p[2]).w
    /\ \A i \in 1..Len(w.sharedStrings) :
          \E c \in DocumentCells :
             c.typ = CellTypeSharedString /\ c.v = w.sharedStrings[i]
    /\ \A i \in 1..Len(w.media) :
          \E c \in DocumentCells :
             c.typ = cellTypePicture /\ c.picture # Nil
             /\ c.picture[1].Blob = w.media[i].Blob
    /\ \A e \in Emitted :
          /\ SourceCell(e).typ # cellTypePicture => e.c.vm = <<>>
          /\ SourceCell(e).typ \in {CellTypeBool, CellTypeNumber} =>
                e.c.v = <<SourceCell(e).v>>
          /\ SourceCell(e).typ = cellTypePicture => e.c.v = <<"#VALUE!">>

\* Write has returned nil for a row whose only cell was set to a picture
\* and then to a string: no media record, one shared string.
C26_Witness ==
    /\ ret = <<NoError>>
    /\ Len(w.media) = 0
    /\ Len(w.sharedStrings) = 1
    /\ \E e \in Emitted :
          /\ SourceCell(e).typ = CellTypeSharedString
          /\ SourceCell(e).picture # Nil
          /\ e.c.t = <<"s">>
          /\ e.c.vm = <<>>

\* Write has returned nil for a row whose only cell was set to a string and
\* then to a picture: no shared string, one media record.
C26_WitnessPictureLast ==
    /\ ret = <<NoError>>
    /\ Len(w.media) = 1
    /\ Len(w.sharedStrings) = 0
    /\ \E e \in Emitted :
          /\ SourceCell(e).typ = cellTypePicture
          /\ SourceCell(e).v = "a"
          /\ e.c.v = <<"#VALUE!">>


(***************************************************************************)
(* The interned lists of the Writer                                        *)
(***************************************************************************)

\* s is the beginning of t.
StartsWith(t, s) == Len(s) <= Len(t) /\ SubSeq(t, 1, Len(s)) = s

NoTwoEqual(s) == \A i, j \in 1..Len(s) : s[i] = s[j] => i = j

\* The steps of one Write: every step but the one that starts the next run.
SameWrite == prev' = prev

\* C27: during one Write the shared-string list, the style list, the font
\* list and the media list only grow at the end: after every step each list
\* begins with the list of before the step, so that every assigned index
\* keeps its value and nothing is removed or reordered, and no list holds
\* two equal entries.
C27_InternedListsAppendOnly ==
    [][SameWrite =>
          /\ StartsWith(w'.sharedStrings, w.sharedStrings)
          /\ StartsWith(w'.xfs, w.xfs)
          /\ StartsWith(w'.fonts, w.fonts)
          /\ StartsWith(w'.media, w.media)
          /\ NoTwoEqual(w'.sharedStrings)
          /\ NoTwoEqual(w'.xfs)
          /\ NoTwoEqual(w'.fonts)
          /\ NoTwoEqual(w'.media)]_vars

\* Witness: a Write has returned with two strings, two styles that share
\* their one font, and so one font, in the lists.
C27_Witness ==
    /\ pc = "done"
    /\ Len(w.sharedStrings) = 2
    /\ Len(w.xfs) = 2
    /\ Len(w.fonts) = 1

\* Witness: a Write has returned with two media in the list.
C27_WitnessMedia == pc = "done" /\ Len(w.media) = 2

\* Witness: two cells were written and the second found the string, the
\* style or the medium of the first in the list.
C27_WitnessFound ==
    /\ pc = "done"
    /\ Len(emitted) = 2
    /\ Len(w.sharedStrings) + Len(w.media) = 1
    /\ Len(w.xfs) = 1

(***************************************************************************)
(* The relationships of the package                                        *)
(***************************************************************************)

\* The names between the slashes of a path, empty ones included.
RECURSIVE SplitPath(_)
SplitPath(p) ==
    IF p = <<>> THEN << <<>> >>
    ELSE LET r == SplitPath(Tail(p))
         IN  IF Head(p) = "/" THEN << <<>> >> \o r
             ELSE << <<Head(p)>> \o Head(r) >> \o Tail(r)

\* The names of a path, from the root of the package.
Names(p) == SelectSeq(SplitPath(p), LAMBDA n : n # <<>>)

\* The directory that holds the last name of a path.
Parent(names) == IF names = <<>> THEN <<>> ELSE SubSeq(names, 1, Len(names) - 1)

\* The path a relative path names in a directory; ".." goes up one level.
RECURSIVE Resolve(_, _)
Resolve(dir, rel) ==
    IF rel = <<>> THEN dir
    ELSE IF Head(rel) = <<".", ".">> THEN Resolve(Parent(dir), Tail(rel))
    ELSE Resolve(Append(dir, Head(rel)), Tail(rel))

WrittenNames == {Names(p) : p \in WrittenPaths}

\* The relationship maps of the Writer, each with the path of its part.
RelationshipMaps ==
    { [path |-> PathGlobalRels,   rels |-> w.GlobalRels],
      [path |-> PathWorkbookRels, rels |-> w.WorkbookRels],
      [path |-> PathRichDataRels, rels |-> w.RichDataRels] }

\* The directory of a relationship part, and the directory of the part the
\* relationships belong to, which holds the _rels directory.
RelsDirectory(path) == Parent(Names(path))
PartDirectory(path) == Parent(RelsDirectory(path))

TargetsWrittenFromRelsDirectory ==
    \A m \in RelationshipMaps : \A rid \in DOMAIN m.rels :
        Resolve(RelsDirectory(m.path), Names(m.rels[rid].Target)) \in WrittenNames

TargetsWrittenFromPartDirectory ==
    \A m \in RelationshipMaps : \A rid \in DOMAIN m.rels :
        Resolve(PartDirectory(m.path), Names(m.rels[rid].Target)) \in WrittenNames

\* The package-root map has three entries: workbook, core properties and
\* extended properties.
RootHasThree ==
    /\ Cardinality(DOMAIN w.GlobalRels) = 3
    /\ \A part \in {PartWorkbook, PartCore, PartApp} :
          \E rid \in DOMAIN w.GlobalRels :
             w.GlobalRels[rid] = [Type |-> part.Type, Target |-> part.relpath]

\* The written workbook part lists the sheets of the document in document
\* order, sheet i with sheetId i and relationship id rId<i>, and that
\* relationship points at the worksheet part named after the sheet.
SheetsNumbered ==
    \A j \in Written("workbook") :
        /\ Len(out[j].body.sheets) = Len(Sheets)
        /\ \A i \in 1..Len(Sheets) :
              /\ out[j].body.sheets[i] =
                    [name |-> Sheets[i].Name, sheetId |-> i, rid |-> RId(i)]
              /\ RId(i) \in DOMAIN w.WorkbookRels
              /\ w.WorkbookRels[RId(i)] =
                    [Type |-> PartSheet(Sheets[i].Name).Type,
                     Target |-> PartSheet(Sheets[i].Name).relpath]
              /\ PartSheet(Sheets[i].Name).abspath \in WrittenPaths

Succeeded == pc = "done" /\ ret = <<NoError>>

=============================================================================
